---- MODULE Spec2Model ----
(***************************************************************************)
(* A model of the schedule modifier: the schedule-line codec and ordering  *)
(* of schedule.rs, and the edit session of app.rs / main.rs.               *)
(*                                                                         *)
(* Text is modelled at character level: a string is a sequence of          *)
(* one-character strings, so that split, padding, number parsing and       *)
(* substring tests are computed as the code computes them.                 *)
(***************************************************************************)
EXTENDS Integers, Sequences, FiniteSets, TLC

(***************************************************************************)
(* Characters and strings                                                  *)
(***************************************************************************)

\* The characters in use, in ASCII order (String's Ord compares bytes).
AsciiOrder ==
    << " ", "+", ",", "-", "0", "1", "2", "3", "4", "5", "6", "7", "8", "9",
       ":", ">", "B", "C", "D", "E", "H", "M", "P", "S", "T", "U", "Y", "[",
       "]", "_", "a", "b", "c", "d", "e", "f", "g", "h", "i", "j", "k", "l",
       "m", "n", "o", "p", "q", "r", "s", "t", "u", "v", "w", "x", "y", "z" >>

CharCode(c) == CHOOSE i \in 1..Len(AsciiOrder) : AsciiOrder[i] = c

Digits == <<"0", "1", "2", "3", "4", "5", "6", "7", "8", "9">>

IsDigit(c) == \E i \in 1..Len(Digits) : Digits[i] = c

DigitVal(c) == (CHOOSE i \in 1..Len(Digits) : Digits[i] = c) - 1

\* The value of a sequence of decimal digits.
RECURSIVE DigitsVal(_)
DigitsVal(s) ==
    IF s = <<>> THEN 0
    ELSE DigitsVal(SubSeq(s, 1, Len(s) - 1)) * 10 + DigitVal(s[Len(s)])

AllDigits(s) == \A i \in 1..Len(s) : IsDigit(s[i])

\* Display of a non-negative integer ("{}").
RECURSIVE NatToStr(_)
NatToStr(n) ==
    IF n < 10 THEN <<Digits[n + 1]>>
    ELSE NatToStr(n \div 10) \o <<Digits[(n % 10) + 1]>>

\* Display of a signed integer ("{}").
IntToStr(n) == IF n < 0 THEN <<"-">> \o NatToStr(0 - n) ELSE NatToStr(n)

\* Display of a non-negative integer zero-padded to width w ("%m", "%Y", ...).
RECURSIVE ZeroPad(_, _)
ZeroPad(s, w) == IF Len(s) >= w THEN s ELSE ZeroPad(<<"0">> \o s, w)

\* "{: <w}": left-aligned, filled with trailing spaces up to width w.
RECURSIVE PadRight(_, _)
PadRight(s, w) == IF Len(s) >= w THEN s ELSE PadRight(s \o <<" ">>, w)

\* str::split(' '): every single space is a boundary; n spaces give n+1 pieces.
\* A variant of split that drops empty pieces, as split_whitespace would.
RECURSIVE SplitWsFrom(_, _, _, _)
SplitWsFrom(s, i, cur, acc) ==
    IF i > Len(s) THEN (IF cur = <<>> THEN acc ELSE Append(acc, cur))
    ELSE IF s[i] = " "
    THEN SplitWsFrom(s, i + 1, <<>>, IF cur = <<>> THEN acc ELSE Append(acc, cur))
    ELSE SplitWsFrom(s, i + 1, Append(cur, s[i]), acc)

split_whitespace(s) == SplitWsFrom(s, 1, <<>>, <<>>)

RECURSIVE SplitFrom(_, _, _, _)
SplitFrom(s, i, cur, acc) ==
    IF i > Len(s) THEN Append(acc, cur)
    ELSE IF s[i] = " " THEN SplitFrom(s, i + 1, <<>>, Append(acc, cur))
    ELSE SplitFrom(s, i + 1, Append(cur, s[i]), acc)

split(s) == SplitFrom(s, 1, <<>>, <<>>)

\* str::contains(pat)
contains(s, pat) ==
    \E i \in 0..(Len(s) - Len(pat)) : SubSeq(s, i + 1, i + Len(pat)) = pat

\* Ordering results, as core::cmp::Ordering.
CmpInt(a, b) == IF a < b THEN "Less" ELSE IF a > b THEN "Greater" ELSE "Equal"

\* Ordering::then: the first comparison decides unless it is Equal.
Then(o1, o2) == IF o1 = "Equal" THEN o2 ELSE o1

CmpChar(a, b) == CmpInt(CharCode(a), CharCode(b))

\* <String as Ord>::cmp: bytewise lexicographic, a proper prefix being Less.
RECURSIVE CmpStr(_, _)
CmpStr(a, b) ==
    IF a = <<>> /\ b = <<>> THEN "Equal"
    ELSE IF a = <<>> THEN "Less"
    ELSE IF b = <<>> THEN "Greater"
    ELSE Then(CmpChar(Head(a), Head(b)), CmpStr(Tail(a), Tail(b)))

\* <Vec<String> as Ord>::cmp: lexicographic over the elements.
RECURSIVE CmpVecStr(_, _)
CmpVecStr(a, b) ==
    IF a = <<>> /\ b = <<>> THEN "Equal"
    ELSE IF a = <<>> THEN "Less"
    ELSE IF b = <<>> THEN "Greater"
    ELSE Then(CmpStr(Head(a), Head(b)), CmpVecStr(Tail(a), Tail(b)))

(***************************************************************************)
(* schedule.rs: errors, modes, durations                                   *)
(***************************************************************************)

\* Result<T, ScheduleError>
Ok(v) == [ok |-> TRUE, val |-> v]

Err(kind, msg) == [ok |-> FALSE, kind |-> kind, msg |-> msg]

\* enum ScheduleError: the variants, each but MissingFields carrying a message.
ScheduleError ==
    {"InvalidDate", "InvalidTime", "InvalidDuration", "InvalidPriority",
     "InvalidMode", "MissingFields"}

\* enum SchedulingMode, in declaration order (the order derive(Ord) uses).
SchedulingMode == <<"Common", "Discretionary", "Special">>

ModeIndex(m) == CHOOSE i \in 1..Len(SchedulingMode) : SchedulingMode[i] = m

\* impl Display for SchedulingMode
SchedulingMode_fmt(m) ==
    CASE m = "Common" -> <<"c","o","m","m","o","n">>
      [] m = "Discretionary" ->
            <<"d","i","s","c","r","e","t","i","o","n","a","r","y">>
      [] m = "Special" -> <<"s","p","e","c","i","a","l">>

\* enum ScdDuration { Infinite, Finite(Duration) }; the Duration is kept in
\* whole minutes, which is all parse_duration produces and all Display reads.
Infinite == [inf |-> TRUE, min |-> 0]

Finite(n) == [inf |-> FALSE, min |-> n]

\* impl Display for ScdDuration
ScdDuration_fmt(d) == IF d.inf THEN <<"-">> ELSE IntToStr(d.min)

\* The checked accumulation of str::parse::<u8>(): -1 once the value leaves
\* the u8 range (checked_mul / checked_add fail), else the value.
RECURSIVE U8Acc(_, _)
U8Acc(s, acc) ==
    IF s = <<>> THEN acc
    ELSE LET n == acc * 10 + DigitVal(Head(s))
         IN  IF n > 255 THEN -1 ELSE U8Acc(Tail(s), n)

\* A variant of parse_u8 that reads a signed integer.
parse_u8_signed(s) ==
    LET neg  == s # <<>> /\ s[1] = "-"
        body == IF s # <<>> /\ s[1] \in {"+", "-"} THEN Tail(s) ELSE s
    IN  IF body # <<>> /\ AllDigits(body) /\ U8Acc(body, 0) >= 0
        THEN Ok(IF neg THEN 0 - U8Acc(body, 0) ELSE U8Acc(body, 0))
        ELSE Err("ParseIntError", <<>>)

\* str::parse::<u8>(): an optional '+', then one or more digits, value <= 255.
parse_u8(s) ==
    LET body == IF s # <<>> /\ s[1] = "+" THEN Tail(s) ELSE s
    IN  IF body # <<>> /\ AllDigits(body) /\ U8Acc(body, 0) >= 0
        THEN Ok(U8Acc(body, 0))
        ELSE Err("ParseIntError", <<>>)

\* str::parse::<i64>(): an optional sign, then one or more digits.  The
\* tokens of the model are short, so the i64 range is never exceeded.
parse_i64(s) ==
    LET neg  == s # <<>> /\ s[1] = "-"
        body == IF s # <<>> /\ s[1] \in {"+", "-"} THEN Tail(s) ELSE s
    IN  IF body # <<>> /\ AllDigits(body)
        THEN Ok(IF neg THEN 0 - DigitsVal(body) ELSE DigitsVal(body))
        ELSE Err("ParseIntError", <<>>)

S_ExpectedMinutes ==
    <<"E","x","p","e","c","t","e","d"," ","m","i","n","u","t","e","s"," ",
      ">"," ","0",","," ","g","o","t"," ">>

\* pub fn parse_duration: the minutes as an i64; Duration::try_minutes is
\* Some for every value the short tokens of the model can denote.
parse_duration(dur) ==
    LET n == parse_i64(dur)
    IN  IF n.ok THEN Ok(n.val)
        ELSE Err("InvalidDuration", S_ExpectedMinutes \o dur)

\* A variant of ScdDuration::try_from that lets a duration of 0 minutes pass.
ScdDuration_try_from_zero(value) ==
    IF value = <<"-">> THEN Ok(Infinite)
    ELSE LET dur == parse_duration(value)
         IN  IF ~dur.ok THEN dur
             ELSE IF dur.val < 0
                  THEN Err("InvalidDuration", S_ExpectedMinutes \o value)
                  ELSE Ok(Finite(dur.val))

\* impl TryFrom<&String> for ScdDuration
ScdDuration_try_from(value) ==
    IF value = <<"-">> THEN Ok(Infinite)
    ELSE LET dur == parse_duration(value)
         IN  IF ~dur.ok THEN dur
             ELSE IF dur.val < 1
                  THEN Err("InvalidDuration", S_ExpectedMinutes \o value)
                  ELSE Ok(Finite(dur.val))

(***************************************************************************)
(* chrono: calendar dates, times of day and their strftime parsing         *)
(***************************************************************************)

IsLeap(y) == (y % 4 = 0 /\ y % 100 # 0) \/ y % 400 = 0

DaysInMonth(y, m) ==
    IF m = 2 THEN (IF IsLeap(y) THEN 29 ELSE 28)
    ELSE IF m \in {4, 6, 9, 11} THEN 30 ELSE 31

\* NaiveDate::from_ymd_opt
from_ymd_opt(y, m, d) ==
    IF m \in 1..12 /\ d >= 1 /\ d <= DaysInMonth(y, m)
    THEN Ok([y |-> y, mo |-> m, d |-> d])
    ELSE Err("None", <<>>)

\* NaiveDate::and_hms_opt(h, mi, 0)
and_hms_opt(date, h, mi) ==
    IF h \in 0..23 /\ mi \in 0..59
    THEN Ok([y |-> date.y, mo |-> date.mo, d |-> date.d, h |-> h, mi |-> mi])
    ELSE Err("None", <<>>)

\* chrono::format::scan::number(s, min, max): the longest run of at most max
\* leading digits, which must be at least min long.
LeadingDigits(s, max) ==
    LET lim == IF Len(s) < max THEN Len(s) ELSE max
        ks  == {k \in 0..lim : \A i \in 1..k : IsDigit(s[i])}
    IN  CHOOSE k \in ks : \A j \in ks : j <= k

scan_number(s, min, max) ==
    LET k == LeadingDigits(s, max)
    IN  IF k < min THEN Err("Invalid", <<>>)
        ELSE [ok |-> TRUE, val |-> DigitsVal(SubSeq(s, 1, k)),
              rest |-> SubSeq(s, k + 1, Len(s))]

\* A signed numeric item (%Y): an explicit sign lifts the width limit.
scan_signed(s, width) ==
    IF s # <<>> /\ s[1] = "-"
    THEN LET r == scan_number(Tail(s), 1, Len(s))
         IN  IF r.ok THEN [r EXCEPT !.val = 0 - r.val] ELSE r
    ELSE IF s # <<>> /\ s[1] = "+" THEN scan_number(Tail(s), 1, Len(s))
    ELSE scan_number(s, 1, width)

\* NaiveDate::parse_from_str(s, "%Y%m%d")
NaiveDate_parse(s) ==
    LET y == scan_signed(s, 4)
    IN  IF ~y.ok THEN Err("ParseError", <<>>)
        ELSE LET m == scan_number(y.rest, 1, 2)
             IN  IF ~m.ok THEN Err("ParseError", <<>>)
                 ELSE LET d == scan_number(m.rest, 1, 2)
                      IN  IF ~d.ok \/ d.rest # <<>> THEN Err("ParseError", <<>>)
                          ELSE from_ymd_opt(y.val, m.val, d.val)

\* A variant of the time parser that takes hour 24 for valid.
NaiveTime_parse_24(s) ==
    LET h == scan_number(s, 1, 2)
    IN  IF ~h.ok \/ h.rest = <<>> \/ h.rest[1] # ":" THEN Err("ParseError", <<>>)
        ELSE LET mi == scan_number(Tail(h.rest), 1, 2)
             IN  IF ~mi.ok \/ mi.rest # <<>> THEN Err("ParseError", <<>>)
                 ELSE IF h.val > 24 \/ mi.val > 59 THEN Err("ParseError", <<>>)
                 ELSE Ok([h |-> h.val, mi |-> mi.val])

\* NaiveTime::parse_from_str(s, "%H:%M")
NaiveTime_parse(s) ==
    LET h == scan_number(s, 1, 2)
    IN  IF ~h.ok \/ h.rest = <<>> \/ h.rest[1] # ":" THEN Err("ParseError", <<>>)
        ELSE LET mi == scan_number(Tail(h.rest), 1, 2)
             IN  IF ~mi.ok \/ mi.rest # <<>> THEN Err("ParseError", <<>>)
                 ELSE IF h.val > 23 \/ mi.val > 59 THEN Err("ParseError", <<>>)
                 ELSE Ok([h |-> h.val, mi |-> mi.val])

S_ExpectedDate ==
    <<"E","x","p","e","c","t","e","d"," ","Y","Y","Y","Y","M","M","D","D",
      ","," ","g","o","t"," ">>

S_ExpectedTime ==
    <<"E","x","p","e","c","t","e","d"," ","H","H",":","M","M",","," ","g",
      "o","t"," ">>

\* pub fn parse_date
parse_date(date) ==
    LET r == NaiveDate_parse(date)
    IN  IF r.ok THEN r ELSE Err("InvalidDate", S_ExpectedDate \o date)

\* pub fn parse_time
parse_time(time) ==
    LET r == NaiveTime_parse(time)
    IN  IF r.ok THEN r ELSE Err("InvalidTime", S_ExpectedTime \o time)

\* A DateTime<Utc> at minute resolution.
Timestamp(y, mo, d, h, mi) == [y |-> y, mo |-> mo, d |-> d, h |-> h, mi |-> mi]

\* <DateTime<Utc> as Ord>::cmp: chronological, which on calendar fields is
\* lexicographic.
CmpTs(a, b) ==
    Then(CmpInt(a.y, b.y), Then(CmpInt(a.mo, b.mo), Then(CmpInt(a.d, b.d),
    Then(CmpInt(a.h, b.h), CmpInt(a.mi, b.mi)))))

\* DelayedFormat for "%Y%m%d %H:%M"
Timestamp_format(t) ==
    ZeroPad(NatToStr(t.y), 4) \o ZeroPad(NatToStr(t.mo), 2)
    \o ZeroPad(NatToStr(t.d), 2) \o <<" ">>
    \o ZeroPad(NatToStr(t.h), 2) \o <<":">> \o ZeroPad(NatToStr(t.mi), 2)

\* impl Display for DateTime<Utc>: "2000-01-01 00:00:00 UTC"
Timestamp_display(t) ==
    ZeroPad(NatToStr(t.y), 4) \o <<"-">> \o ZeroPad(NatToStr(t.mo), 2)
    \o <<"-">> \o ZeroPad(NatToStr(t.d), 2) \o <<" ">>
    \o ZeroPad(NatToStr(t.h), 2) \o <<":">> \o ZeroPad(NatToStr(t.mi), 2)
    \o <<":", "0", "0", " ", "U", "T", "C">>

\* impl Display for chrono::Duration (ISO 8601, in seconds)
Duration_display(n) ==
    IF n = 0 THEN <<"P", "0", "D">>
    ELSE (IF n < 0 THEN <<"-">> ELSE <<>>) \o <<"P", "T">>
         \o NatToStr((IF n < 0 THEN 0 - n ELSE n) * 60) \o <<"S">>

(***************************************************************************)
(* schedule.rs: ScheduleLine                                               *)
(***************************************************************************)

\* struct ScheduleLine
ScheduleLine(ts, dur, prio, exp, mode, kw) ==
    [timestamp |-> ts, duration |-> dur, priority |-> prio,
     experiment |-> exp, scheduling_mode |-> mode, kwargs |-> kw]

S_DateRange ==
    <<"E","x","p","e","c","t","e","d"," ","d","a","t","e"," ","b","e","t",
      "w","e","e","n"," ","y","e","a","r","s"," ","2","0","0","0"," ","a",
      "n","d"," ","2","0","4","9",","," ","g","o","t"," ">>

S_InfinitePriority ==
    <<"C","a","n","n","o","t"," ","h","a","v","e"," ","p","r","i","o","r",
      "i","t","y"," ",">"," ","0"," ","f","o","r"," ","i","n","f","i","n",
      "i","t","e"," ","s","c","h","e","d","u","l","e"," ","l","i","n","e">>

S_PositiveDuration ==
    <<"E","x","p","e","c","t","e","d"," ","p","o","s","i","t","i","v","e",
      " ","d","u","r","a","t","i","o","n",","," ","g","o","t"," ">>

S_Gt20 == <<" ", ">", " ", "2", "0">>

\* The two instants ScheduleLine::new parses from "20000101 00:00" and
\* "20510101 00:00".
RangeStart == Timestamp(2000, 1, 1, 0, 0)

RangeEnd == Timestamp(2051, 1, 1, 0, 0)

\* A variant of ScheduleLine::new without the rule for Infinite durations.
ScheduleLine_new_no_rule(timestamp, duration, priority, experiment, scheduling_mode, kwargs) ==
    IF CmpTs(timestamp, RangeStart) = "Less" \/ CmpTs(timestamp, RangeEnd) = "Greater"
    THEN Err("InvalidDate", S_DateRange \o Timestamp_display(timestamp))
    ELSE IF ~duration.inf /\ duration.min < 1
    THEN Err("InvalidDuration", S_PositiveDuration \o Duration_display(duration.min))
    ELSE IF priority > 20
    THEN Err("InvalidPriority", NatToStr(priority) \o S_Gt20)
    ELSE Ok(ScheduleLine(timestamp, duration, priority, experiment,
                         scheduling_mode, kwargs))

\* ScheduleLine::new
ScheduleLine_new(timestamp, duration, priority, experiment, scheduling_mode, kwargs) ==
    IF CmpTs(timestamp, RangeStart) = "Less" \/ CmpTs(timestamp, RangeEnd) = "Greater"
    THEN Err("InvalidDate", S_DateRange \o Timestamp_display(timestamp))
    ELSE IF duration.inf /\ priority > 0
    THEN Err("InvalidPriority", S_InfinitePriority)
    ELSE IF ~duration.inf /\ duration.min < 1
    THEN Err("InvalidDuration", S_PositiveDuration \o Duration_display(duration.min))
    ELSE IF priority > 20
    THEN Err("InvalidPriority", NatToStr(priority) \o S_Gt20)
    ELSE Ok(ScheduleLine(timestamp, duration, priority, experiment,
                         scheduling_mode, kwargs))

\* A variant of the mode match that ignores the case of the first letter.
parse_mode_nocase(tok) ==
    IF tok \in {<<"c","o","m","m","o","n">>, <<"C","o","m","m","o","n">>}
    THEN Ok("Common")
    ELSE IF tok = <<"d","i","s","c","r","e","t","i","o","n","a","r","y">>
    THEN Ok("Discretionary")
    ELSE IF tok = <<"s","p","e","c","i","a","l">> THEN Ok("Special")
    ELSE Err("InvalidMode", tok)

\* The match on fields[5] of try_from.
parse_mode(tok) ==
    IF tok = <<"c","o","m","m","o","n">> THEN Ok("Common")
    ELSE IF tok = <<"d","i","s","c","r","e","t","i","o","n","a","r","y">>
    THEN Ok("Discretionary")
    ELSE IF tok = <<"s","p","e","c","i","a","l">> THEN Ok("Special")
    ELSE Err("InvalidMode", tok)

\* impl TryFrom<&String> for ScheduleLine
ScheduleLine_try_from(value) ==
    LET fields == split(value)
    IN  IF Len(fields) < 6 THEN Err("MissingFields", <<>>)
        ELSE
        LET date == parse_date(fields[1])
            time == parse_time(fields[2])
            prio == parse_u8(fields[4])
            mode == parse_mode(fields[6])
            dur  == ScdDuration_try_from(fields[3])
        IN  IF ~date.ok THEN date
            ELSE IF ~time.ok THEN time
            ELSE IF ~prio.ok THEN Err("InvalidPriority", fields[4])
            ELSE IF prio.val > 20 THEN Err("InvalidPriority", fields[4] \o S_Gt20)
            ELSE IF ~mode.ok THEN mode
            ELSE IF ~dur.ok THEN dur
            ELSE ScheduleLine_new(
                     Timestamp(date.val.y, date.val.mo, date.val.d,
                               time.val.h, time.val.mi),
                     dur.val, prio.val, fields[5], mode.val,
                     SubSeq(fields, 7, Len(fields)))

\* A variant of the kwargs loop that pushes no space before a kwarg.
RECURSIVE kwargs_string_nosep(_)
kwargs_string_nosep(kw) ==
    IF kw = <<>> THEN <<>> ELSE Head(kw) \o kwargs_string_nosep(Tail(kw))

\* The loop of format building kwargs_string.
RECURSIVE kwargs_string(_)
kwargs_string(kw) ==
    IF kw = <<>> THEN <<>> ELSE <<" ">> \o Head(kw) \o kwargs_string(Tail(kw))

\* ScheduleLine::format
format(line) ==
    PadRight(Timestamp_format(line.timestamp), 14) \o <<" ">>
    \o ScdDuration_fmt(line.duration) \o <<" ">>
    \o NatToStr(line.priority) \o <<" ">>
    \o line.experiment \o <<" ">>
    \o SchedulingMode_fmt(line.scheduling_mode)
    \o kwargs_string(line.kwargs)

\* derive(Ord) for ScdDuration: Infinite before every Finite, Finite by length.
CmpDuration(a, b) ==
    IF a.inf /\ b.inf THEN "Equal"
    ELSE IF a.inf THEN "Less"
    ELSE IF b.inf THEN "Greater"
    ELSE CmpInt(a.min, b.min)

\* derive(Ord) for SchedulingMode: by declaration order.
CmpMode(a, b) == CmpInt(ModeIndex(a), ModeIndex(b))

\* A variant of the derived order with priority declared before duration.
ScheduleLine_cmp_priority_first(a, b) ==
    Then(CmpTs(a.timestamp, b.timestamp),
    Then(CmpInt(a.priority, b.priority),
    Then(CmpDuration(a.duration, b.duration),
    Then(CmpStr(a.experiment, b.experiment),
    Then(CmpMode(a.scheduling_mode, b.scheduling_mode),
         CmpVecStr(a.kwargs, b.kwargs))))))

\* derive(Ord) for ScheduleLine: the fields in declaration order.
ScheduleLine_cmp(a, b) ==
    Then(CmpTs(a.timestamp, b.timestamp),
    Then(CmpDuration(a.duration, b.duration),
    Then(CmpInt(a.priority, b.priority),
    Then(CmpStr(a.experiment, b.experiment),
    Then(CmpMode(a.scheduling_mode, b.scheduling_mode),
         CmpVecStr(a.kwargs, b.kwargs))))))

(***************************************************************************)
(* app.rs: the selectable lists                                            *)
(***************************************************************************)

\* Option<T>: None, or Some(x).
None == <<>>

Some(x) == <<x>>

\* ratatui ListState: the selected index and the scroll offset.
ListState(selected, offset) == [selected |-> selected, offset |-> offset]

\* ListState::select: selecting None also resets the offset.
select(state, index) ==
    ListState(index, IF index = None THEN 0 ELSE state.offset)

\* A variant of unselect without the lines that restore the offset.
unselect_resets(state) == select(state, None)

\* ExperimentList::unselect / ScheduleList::unselect: the offset is kept.
unselect(state) == ListState(None, state.offset)

\* A variant of list_next that stays on the last item instead of wrapping.
list_next_no_wrap(n, state) ==
    IF n = 0 THEN unselect(state)
    ELSE select(state,
                Some(IF state.selected = None THEN 0
                     ELSE IF state.selected[1] >= n - 1 THEN n - 1
                     ELSE state.selected[1] + 1))

\* ExperimentList::next / ScheduleList::next on a list of n items
list_next(n, state) ==
    IF n = 0 THEN unselect(state)
    ELSE select(state,
                Some(IF state.selected = None THEN 0
                     ELSE IF state.selected[1] >= n - 1 THEN 0
                     ELSE state.selected[1] + 1))

\* ExperimentList::previous / ScheduleList::previous
list_previous(n, state) ==
    IF n = 0 THEN unselect(state)
    ELSE select(state,
                Some(IF state.selected = None THEN 0
                     ELSE IF state.selected[1] = 0 THEN n - 1
                     ELSE state.selected[1] - 1))

\* A variant of list_first without the test for an empty list.
list_first_unchecked(n, state) == select(state, Some(0))

\* ExperimentList::first / ScheduleList::first
list_first(n, state) == IF n = 0 THEN unselect(state) ELSE select(state, Some(0))

\* ExperimentList::last / ScheduleList::last
list_last(n, state) ==
    IF n = 0 THEN unselect(state) ELSE select(state, Some(n - 1))

\* ModeList::next: nothing at all on an empty list
ModeList_next(n, state) == IF n > 0 THEN list_next(n, state) ELSE state

\* ModeList::previous
ModeList_previous(n, state) == IF n > 0 THEN list_previous(n, state) ELSE state

\* ModeList::first
ModeList_first(n, state) == IF n > 0 THEN select(state, Some(0)) ELSE state

\* ModeList::last
ModeList_last(n, state) == IF n > 0 THEN select(state, Some(n - 1)) ELSE state

\* ListState::scroll_down_by(amount): the selection moves down, unclamped.
scroll_down_by(state, amount) ==
    select(state, Some((IF state.selected = None THEN 0 ELSE state.selected[1])
                       + amount))

\* ListState::scroll_up_by(amount): the selection moves up, stopping at 0.
scroll_up_by(state, amount) ==
    LET cur == IF state.selected = None THEN 0 ELSE state.selected[1]
    IN  select(state, Some(IF cur < amount THEN 0 ELSE cur - amount))

\* A variant of render_list that leaves the selection as it finds it.
render_list_no_clamp(n, state) == state

\* The effect on the state of rendering a List of n items with it: an empty
\* list clears the selection, a selection past the end moves to the last
\* item.  Every row fits in the viewport, so the offset is not scrolled.
render_list(n, state) ==
    IF n = 0 THEN select(state, None)
    ELSE IF state.selected # None /\ state.selected[1] >= n
    THEN select(state, Some(n - 1))
    ELSE state

(***************************************************************************)
(* app.rs: the App and its edit session                                    *)
(***************************************************************************)

\* enum CurrentlyEditing, in the order of the form.
CurrentlyEditing ==
    <<"Year", "Month", "Day", "Hour", "Minute", "Duration", "Priority",
      "Experiment", "SchedulingMode", "Kwargs", "Done">>

EditingIndex(e) == CHOOSE i \in 1..Len(CurrentlyEditing) : CurrentlyEditing[i] = e

\* The text buffer a field types into, if it has one.
InputOf ==
    [Year |-> "year_input", Month |-> "month_input", Day |-> "day_input",
     Hour |-> "hour_input", Minute |-> "minute_input",
     Duration |-> "duration_input", Priority |-> "priority_input",
     Kwargs |-> "kwarg_input"]

\* Sorting: insertion of x into an ascending sequence, and Vec::sort.
RECURSIVE InsertSorted(_, _)
InsertSorted(x, seq) ==
    IF seq = <<>> THEN <<x>>
    ELSE IF ScheduleLine_cmp(x, Head(seq)) = "Less" THEN <<x>> \o seq
    ELSE <<Head(seq)>> \o InsertSorted(x, Tail(seq))

RECURSIVE sort(_)
sort(seq) ==
    IF seq = <<>> THEN <<>>
    ELSE InsertSorted(seq[Len(seq)], sort(SubSeq(seq, 1, Len(seq) - 1)))

\* Vec::reverse
reverse(seq) == [i \in 1..Len(seq) |-> seq[Len(seq) + 1 - i]]

\* Vec::remove(x)
remove(seq, x) == SubSeq(seq, 1, x) \o SubSeq(seq, x + 2, Len(seq))

\* The ? of load_schedule: the first failure is returned, else the entry
\* joins those decoded from the lines after it.
extend(first, rest) ==
    IF ~first.ok THEN first
    ELSE IF ~rest.ok THEN rest
    ELSE Ok(<<first.val>> \o rest.val)

\* The loop of App::load_schedule over the lines of the file.
RECURSIVE try_from_all(_)
try_from_all(lines) ==
    IF lines = <<>> THEN Ok(<<>>)
    ELSE extend(ScheduleLine_try_from(Head(lines)), try_from_all(Tail(lines)))

\* The end of App::load_schedule: the entries decoded are reversed.
reversed(decoded) == IF decoded.ok THEN Ok(reverse(decoded.val)) ELSE decoded

\* A byte that no UTF-8 text holds, as one element of a file's text.
Byte_FF == "0xFF"

\* A line as BufRead::lines yields it: without a carriage return at its end.
chomp(line) ==
    IF line # <<>> /\ line[Len(line)] = "\r" THEN SubSeq(line, 1, Len(line) - 1)
    ELSE line

\* The place of the first newline of the text, 0 when it has none.
FirstNewline(text) ==
    IF \E i \in 1..Len(text) : text[i] = "\n"
    THEN CHOOSE i \in 1..Len(text) :
            text[i] = "\n" /\ \A j \in 1..(i - 1) : text[j] # "\n"
    ELSE 0

\* The bytes of the file cut after each newline; what follows the last
\* newline is a line too unless it is empty.  k is the place of the first
\* newline of the text.
RECURSIVE LinesFrom(_)
CutLines(text, k) ==
    IF k = 0 THEN <<chomp(text)>>
    ELSE <<chomp(SubSeq(text, 1, k - 1))>>
            \o LinesFrom(SubSeq(text, k + 1, Len(text)))

LinesFrom(text) ==
    IF text = <<>> THEN <<>> ELSE CutLines(text, FirstNewline(text))

\* BufRead::lines yields Ok(line) for a line that is UTF-8 and an Err for
\* one that is not, and goes on with the line after it.
is_utf8(line) == \A i \in 1..Len(line) : line[i] # Byte_FF

\* Iterator::flatten over the Results of lines(): an Ok gives its line, an
\* Err gives nothing.
flatten(read) == SelectSeq(read, is_utf8)

\* io::BufReader::new(schedule_file).lines().flatten()
BufRead_lines(text) == flatten(LinesFrom(text))

\* App::load_schedule on the text of the file
load_schedule(text) == reversed(try_from_all(BufRead_lines(text)))

\* App::new, given the entries loaded and the experiment names found.
App_new(current_schedule, available_experiments) ==
    [year_input |-> <<>>, month_input |-> <<>>, day_input |-> <<>>,
     hour_input |-> <<>>, minute_input |-> <<>>, duration_input |-> <<>>,
     priority_input |-> <<>>,
     experiment_list |-> [items |-> available_experiments,
                          state |-> ListState(None, 0)],
     mode_list |-> [modes |-> SchedulingMode,
                    state |-> ModeList_first(Len(SchedulingMode), ListState(None, 0))],
     kwarg_input |-> <<>>,
     schedule_list |-> [lines |-> current_schedule, state |-> ListState(None, 0)],
     current_screen |-> "Main",
     currently_editing |-> None,
     last_err |-> None,
     additions |-> <<>>,
     deletions |-> <<>>]

\* The match of App::backward_toggle: the field each field moves to.
backward_of ==
    [Year |-> "Done", Month |-> "Year", Day |-> "Month", Hour |-> "Day",
     Minute |-> "Hour", Duration |-> "Minute", Priority |-> "Duration",
     Experiment |-> "Priority", SchedulingMode |-> "Experiment",
     Kwargs |-> "SchedulingMode", Done |-> "Kwargs"]

\* The match of App::forward_toggle: the field each field moves to.
forward_of ==
    [Year |-> "Month", Month |-> "Day", Day |-> "Hour", Hour |-> "Minute",
     Minute |-> "Duration", Duration |-> "Priority", Priority |-> "Experiment",
     Experiment |-> "SchedulingMode", SchedulingMode |-> "Kwargs",
     Kwargs |-> "Done", Done |-> "Year"]

\* App::backward_toggle
backward_toggle(a) ==
    IF a.currently_editing = None THEN a
    ELSE [a EXCEPT !.currently_editing = Some(backward_of[a.currently_editing[1]])]

\* A variant of forward_toggle that stops at Done instead of wrapping.
forward_toggle_no_wrap(a) ==
    IF a.currently_editing = None \/ a.currently_editing = Some("Done") THEN a
    ELSE [a EXCEPT !.currently_editing = Some(forward_of[a.currently_editing[1]])]

\* App::forward_toggle
forward_toggle(a) ==
    IF a.currently_editing = None THEN a
    ELSE [a EXCEPT !.currently_editing = Some(forward_of[a.currently_editing[1]])]

\* The checked accumulation of str::parse::<u16>(): -1 past 65535.
RECURSIVE U16Acc(_, _)
U16Acc(s, acc) ==
    IF s = <<>> THEN acc
    ELSE LET n == acc * 10 + DigitVal(Head(s))
         IN  IF n > 65535 THEN -1 ELSE U16Acc(Tail(s), n)

\* str::parse::<u16>(): an optional '+', then one or more digits, value <= 65535.
parse_u16(s) ==
    LET body == IF s # <<>> /\ s[1] = "+" THEN Tail(s) ELSE s
    IN  IF body # <<>> /\ AllDigits(body) /\ U16Acc(body, 0) >= 0
        THEN Ok(U16Acc(body, 0))
        ELSE Err("ParseIntError", <<>>)

S_BadYear == <<"B","a","d"," ","y","e","a","r",":"," ">>

S_BadMonth == <<"B","a","d"," ","m","o","n","t","h",":"," ">>

S_BadDay == <<"B","a","d"," ","d","a","y",":"," ">>

S_BadHour == <<"B","a","d"," ","h","o","u","r",":"," ">>

S_BadMinute == <<"B","a","d"," ","m","i","n","u","t","e",":"," ">>

S_YearRange ==
    <<" ","n","o","t"," ","i","n"," ","r","a","n","g","e"," ","[","2","0","0",
      "0",","," ","2","0","5","0","]">>

S_MonthRange ==
    <<" ","n","o","t"," ","i","n"," ","r","a","n","g","e"," ","[","1",","," ",
      "1","2","]">>

S_DayRange ==
    <<" ","n","o","t"," ","i","n"," ","r","a","n","g","e"," ","[","1",","," ",
      "3","1","]">>

S_HourRange ==
    <<" ","n","o","t"," ","i","n"," ","r","a","n","g","e"," ","[","0",","," ",
      "2","3","]">>

S_MinuteRange ==
    <<" ","n","o","t"," ","i","n"," ","r","a","n","g","e"," ","[","0",","," ",
      "5","9","]">>

S_normalscan == <<"n","o","r","m","a","l","s","c","a","n">>

\* App::create_line_from_inputs.  The entry is built as a struct literal,
\* not through ScheduleLine::new: is_infinite with the default (zero)
\* duration is Infinite, anything else Finite of the minutes parsed.
create_line_from_inputs(a) ==
    LET year   == parse_u16(a.year_input)
        month  == parse_u8(a.month_input)
        day    == parse_u8(a.day_input)
        hour   == parse_u8(a.hour_input)
        minute == parse_u8(a.minute_input)
        date   == from_ymd_opt(year.val, month.val, day.val)
        time   == and_hms_opt(date.val, hour.val, minute.val)
        is_infinite == a.duration_input = <<"-">>
        duration    == parse_duration(a.duration_input)
        priority    == parse_u8(a.priority_input)
        experiment  ==
            IF a.experiment_list.state.selected # None
            THEN a.experiment_list.items[a.experiment_list.state.selected[1] + 1]
            ELSE S_normalscan
        scheduling_mode ==
            IF a.mode_list.state.selected # None
            THEN a.mode_list.modes[a.mode_list.state.selected[1] + 1]
            ELSE "Common"
    IN  IF ~year.ok THEN Err("InvalidDate", S_BadYear \o a.year_input)
        ELSE IF year.val < 2000 \/ year.val > 2050
        THEN Err("InvalidDate", S_BadYear \o NatToStr(year.val) \o S_YearRange)
        ELSE IF ~month.ok THEN Err("InvalidDate", S_BadMonth \o a.month_input)
        ELSE IF month.val = 0 \/ month.val > 12
        THEN Err("InvalidDate", S_BadMonth \o NatToStr(month.val) \o S_MonthRange)
        ELSE IF ~day.ok THEN Err("InvalidDate", S_BadDay \o a.day_input)
        ELSE IF day.val = 0 \/ day.val > 31
        THEN Err("InvalidDate", S_BadDay \o NatToStr(day.val) \o S_DayRange)
        ELSE IF ~hour.ok THEN Err("InvalidTime", S_BadHour \o a.hour_input)
        ELSE IF hour.val > 23
        THEN Err("InvalidTime", S_BadHour \o NatToStr(hour.val) \o S_HourRange)
        ELSE IF ~minute.ok THEN Err("InvalidTime", S_BadMinute \o a.minute_input)
        ELSE IF minute.val > 59
        THEN Err("InvalidTime", S_BadMinute \o NatToStr(minute.val) \o S_MinuteRange)
        ELSE IF ~date.ok
        THEN Err("InvalidDate",
                 NatToStr(year.val) \o NatToStr(month.val) \o NatToStr(day.val))
        ELSE IF ~time.ok
        THEN Err("InvalidTime", NatToStr(hour.val) \o <<":">> \o NatToStr(minute.val))
        ELSE IF ~is_infinite /\ ~duration.ok THEN duration
        ELSE IF ~priority.ok THEN Err("InvalidPriority", a.priority_input)
        ELSE IF priority.val > 20
        THEN Err("InvalidPriority", NatToStr(priority.val) \o S_Gt20)
        ELSE Ok(ScheduleLine(
                 Timestamp(year.val, month.val, day.val, hour.val, minute.val),
                 IF is_infinite THEN Infinite ELSE Finite(duration.val),
                 priority.val, experiment, scheduling_mode,
                 split(a.kwarg_input)))

\* A variant of entry_saved that does not record the entry in the ledger.
entry_saved_unlogged(a, res) ==
    IF ~res.ok
    THEN [res |-> res, app |-> [a EXCEPT !.last_err = Some(res)]]
    ELSE [res |-> res,
          app |-> [a EXCEPT
              !.last_err = None,
              !.schedule_list.lines = reverse(sort(Append(@, res.val))),
              !.year_input = <<>>, !.month_input = <<>>,
              !.day_input = <<>>, !.hour_input = <<>>,
              !.minute_input = <<>>, !.duration_input = <<>>,
              !.priority_input = <<>>, !.kwarg_input = <<>>]]

\* A variant of entry_saved that leaves the list as sort left it.
entry_saved_ascending(a, res) ==
    IF ~res.ok
    THEN [res |-> res, app |-> [a EXCEPT !.last_err = Some(res)]]
    ELSE [res |-> res,
          app |-> [a EXCEPT
              !.additions = Append(@, res.val),
              !.last_err = None,
              !.schedule_list.lines = sort(Append(@, res.val)),
              !.year_input = <<>>, !.month_input = <<>>,
              !.day_input = <<>>, !.hour_input = <<>>,
              !.minute_input = <<>>, !.duration_input = <<>>,
              !.priority_input = <<>>, !.kwarg_input = <<>>]]

\* The match of App::save_entry on the result of create_line_from_inputs:
\* the result and the App after it.
entry_saved(a, res) ==
    IF ~res.ok
    THEN [res |-> res, app |-> [a EXCEPT !.last_err = Some(res)]]
    ELSE [res |-> res,
          app |-> [a EXCEPT
              !.additions = Append(@, res.val),
              !.last_err = None,
              !.schedule_list.lines = reverse(sort(Append(@, res.val))),
              !.year_input = <<>>, !.month_input = <<>>,
              !.day_input = <<>>, !.hour_input = <<>>,
              !.minute_input = <<>>, !.duration_input = <<>>,
              !.priority_input = <<>>, !.kwarg_input = <<>>]]

\* App::save_entry
save_entry(a) == entry_saved(a, create_line_from_inputs(a))

\* A variant of remove_schedule_line that does not record the entry removed.
remove_schedule_line_unlogged(a) ==
    LET sel == a.schedule_list.state.selected
        a1  == IF sel # None
               THEN [a EXCEPT !.schedule_list.lines = remove(@, sel[1])]
               ELSE a
    IN  [a1 EXCEPT !.schedule_list.state = unselect(@)]

\* App::remove_schedule_line.  The selection is within the list whenever
\* this runs, the list having been drawn since the selection last moved.
remove_schedule_line(a) ==
    LET sel == a.schedule_list.state.selected
        a1  == IF sel # None
               THEN [a EXCEPT
                       !.deletions = Append(@, a.schedule_list.lines[sel[1] + 1]),
                       !.schedule_list.lines = remove(@, sel[1])]
               ELSE a
    IN  [a1 EXCEPT !.schedule_list.state = unselect(@)]

\* The loop of App::save_schedule: the text in the file once the first
\* `written` entries of the iteration have been written, each followed by a
\* newline.
RECURSIVE write_all(_, _)
write_all(entries, written) ==
    IF written = 0 THEN <<>>
    ELSE write_all(entries, written - 1) \o format(entries[written]) \o <<"\n">>

\* A variant of save_schedule that writes the added entries before the list.
save_schedule_with_additions(a, written) ==
    write_all(a.additions \o reverse(a.schedule_list.lines), written)

\* A variant of save_schedule that writes the entries in the order of the list.
save_schedule_in_order(a, written) == write_all(a.schedule_list.lines, written)

\* App::save_schedule: the text written when the loop stops after `written`
\* entries, the last entry of the list first.
save_schedule(a, written) == write_all(reverse(a.schedule_list.lines), written)

(***************************************************************************)
(* ui.rs: what drawing a frame changes in the App                          *)
(***************************************************************************)

\* fn render_schedule: the list is drawn with its state.
render_schedule(a) ==
    [a EXCEPT !.schedule_list.state = render_list(Len(a.schedule_list.lines), @)]

\* fn render_editor: the experiment or mode list is drawn with its state
\* when no error is shown and that field is being edited.
render_editor(a) ==
    IF a.last_err # None THEN a
    ELSE IF a.currently_editing = Some("Experiment")
    THEN [a EXCEPT !.experiment_list.state =
              render_list(Len(a.experiment_list.items), @)]
    ELSE IF a.currently_editing = Some("SchedulingMode")
    THEN [a EXCEPT !.mode_list.state = render_list(Len(a.mode_list.modes), @)]
    ELSE a

\* fn render_exit_screen sorts both ledgers in place.
render_exit_screen(a) ==
    [a EXCEPT !.additions = sort(@), !.deletions = sort(@)]

\* pub fn ui
ui(a) ==
    LET a1 == render_schedule(a)
        a2 == IF a1.currently_editing # None THEN render_editor(a1) ELSE a1
    IN  IF a2.current_screen = "Exiting" THEN render_exit_screen(a2) ELSE a2

(***************************************************************************)
(* State                                                                   *)
(***************************************************************************)

VARIABLES
    app,      \* the App of main
    scd_file, \* the text of the schedule file
    bak_file, \* the text of the .scd.bak file, or None while there is none
    pc,       \* where main is: running run_app, or how it ended
    edits_left, \* the characters this session may still type or erase
    h_in,     \* the argument of the codec operation under check
    h_out,    \* what the operation returned
    h_pc      \* how far the operation has run

avars == <<app, scd_file, bak_file, pc, edits_left>>

hvars == <<h_in, h_out, h_pc>>

vars == <<app, scd_file, bak_file, pc, edits_left, h_in, h_out, h_pc>>


\* What the codec operations have returned so far: the result of the first
\* call, the text format gave for its value, the result of decoding that text.
Out(res, text, back) == [res |-> res, text |-> text, back |-> back]

(***************************************************************************)
(* The codec applied to bounded inputs                                     *)
(***************************************************************************)

\* The longest kwargs sequence drawn as an input.
MaxKwargs == 1

\* Tokens joined by single spaces: how a line is laid out.
RECURSIVE Join(_)
Join(toks) ==
    IF toks = <<>> THEN <<>>
    ELSE IF Len(toks) = 1 THEN toks[1]
    ELSE toks[1] \o <<" ">> \o Join(Tail(toks))

DateToks ==
    { <<"2","0","0","0","0","1","0","1">>, <<"1","9","9","9","1","2","3","1">>,
      <<"2","0","5","0","1","2","3","1">>, <<"2","0","5","1","0","1","0","1">>,
      <<"2","0","0","0","0","2","3","0">>, <<"2","0","0","0","0","1","1">> }

TimeToks ==
    { <<"0","0",":","0","0">>, <<"2","3",":","5","9">>, <<"1",":","5">>,
      <<"2","4",":","0","0">>, <<"2","3",":","6","0">>, <<"0","0","0","0">> }

DurToks ==
    { <<"-">>, <<"1">>, <<"1","2","0">>, <<"0">>, <<"-","1","0">>, <<"a","b">> }

PrioToks ==
    { <<"0">>, <<"1">>, <<"2","0">>, <<"2","1">>, <<"2","5","6">>,
      <<"-","1">>, <<"2","x">> }

TaskToks == { <<"n","s">>, <<>> }

ModeToks ==
    { <<"c","o","m","m","o","n">>,
      <<"d","i","s","c","r","e","t","i","o","n","a","r","y">>,
      <<"s","p","e","c","i","a","l">>, <<"C","o","m","m","o","n">> }

KwToks == { <<"-","e">>, <<>> }

KwSeqs == UNION { [1..k -> KwToks] : k \in 0..MaxKwargs }

\* Lines of six tokens and more, and lines cut short after fewer tokens.
FullToks ==
    { <<d, t, du, p, x, m>> \o kw :
        d \in DateToks, t \in TimeToks, du \in DurToks, p \in PrioToks,
        x \in TaskToks, m \in ModeToks, kw \in KwSeqs }

ShortToks ==
    { SubSeq(<<d, <<"0","0",":","0","0">>, du, p, <<"n","s">>>>, 1, n) :
        d \in DateToks, du \in DurToks, p \in PrioToks, n \in 0..5 }

DecodeInputs ==
    { [op |-> "decode", toks |-> t, line |-> Join(t)] :
        t \in FullToks \cup ShortToks }

DurationInputs == { [op |-> "duration", tok |-> t] : t \in DurToks }

\* Arguments of ScheduleLine::new, valid and invalid.
NewTimestamps ==
    { Timestamp(1999, 12, 31, 23, 59), Timestamp(2000, 1, 1, 0, 0),
      Timestamp(2024, 2, 29, 12, 5), Timestamp(2050, 12, 31, 23, 59),
      Timestamp(2051, 1, 1, 0, 0), Timestamp(2051, 1, 1, 0, 1) }

NewDurations == { Infinite, Finite(0), Finite(1), Finite(1440) }

NewPriorities == { 0, 1, 20, 21 }

NewInputs ==
    { [op |-> "new", ts |-> t, dur |-> d, prio |-> p, exp |-> x, mode |-> m,
       kw |-> k] :
        t \in NewTimestamps, d \in NewDurations, p \in NewPriorities,
        x \in TaskToks, m \in {"Common", "Discretionary", "Special"},
        k \in KwSeqs }

\* Pairs of schedule lines to compare.
CmpLines ==
    { ScheduleLine(t, d, p, x, m, k) :
        t \in { Timestamp(2000, 1, 31, 23, 0), Timestamp(2000, 2, 1, 0, 59) },
        d \in { Infinite, Finite(1), Finite(2) },
        p \in { 0, 1 },
        x \in { <<"a">>, <<"a", "b">> },
        m \in { "Common", "Special" },
        k \in { <<>>, << <<"-","e">> >> } }

CmpInputs == { [op |-> "cmp", a |-> a, b |-> b] : a \in CmpLines, b \in CmpLines }

InitCodec ==
    /\ h_in \in DecodeInputs \cup DurationInputs \cup NewInputs \cup CmpInputs
    /\ h_out = None
    /\ h_pc = "ready"
    /\ app = App_new(<<>>, <<>>) /\ scd_file = <<>> /\ bak_file = None
    /\ pc = "off" /\ edits_left = 0

\* ScheduleLine::try_from(&line)
Decode ==
    /\ h_pc = "ready" /\ h_in.op = "decode"
    /\ h_out' = Out(ScheduleLine_try_from(h_in.line), None, None)
    /\ h_pc' = "decoded"
    /\ UNCHANGED <<h_in, avars>>

\* ScdDuration::try_from(&token)
DecodeDuration ==
    /\ h_pc = "ready" /\ h_in.op = "duration"
    /\ h_out' = Out(ScdDuration_try_from(h_in.tok), None, None)
    /\ h_pc' = "duration"
    /\ UNCHANGED <<h_in, avars>>

\* ScheduleLine::new(timestamp, duration, priority, &experiment, &mode, kwargs)
New ==
    /\ h_pc = "ready" /\ h_in.op = "new"
    /\ h_out' = Out(ScheduleLine_new(h_in.ts, h_in.dur, h_in.prio, h_in.exp,
                                     h_in.mode, h_in.kw), None, None)
    /\ h_pc' = "constructed"
    /\ UNCHANGED <<h_in, avars>>

\* line.format() on the entry just decoded or constructed
Encode ==
    /\ h_pc \in {"decoded", "constructed"} /\ h_out.res.ok
    /\ h_out' = Out(h_out.res, format(h_out.res.val), None)
    /\ h_pc' = "encoded"
    /\ UNCHANGED <<h_in, avars>>

\* ScheduleLine::try_from(&text) on the text just written
Redecode ==
    /\ h_pc = "encoded"
    /\ h_out' = Out(h_out.res, h_out.text, ScheduleLine_try_from(h_out.text))
    /\ h_pc' = "redecoded"
    /\ UNCHANGED <<h_in, avars>>

\* a.cmp(&b)
Compare ==
    /\ h_pc = "ready" /\ h_in.op = "cmp"
    /\ h_out' = Out(ScheduleLine_cmp(h_in.a, h_in.b), None, None)
    /\ h_pc' = "compared"
    /\ UNCHANGED <<h_in, avars>>

NextCodec == Decode \/ DecodeDuration \/ New \/ Encode \/ Redecode \/ Compare

SpecCodec == InitCodec /\ [][NextCodec]_vars

(***************************************************************************)
(* The list and cursor operations of app.rs, applied to drawn inputs       *)
(***************************************************************************)

\* The longest list the navigation is applied to.
MaxLen == 3

\* The most moves of the field cursor in one run.
MaxMoves == 11

\* A list of n items of one of the three kinds with a cursor inside it (an
\* empty list has none) and a scroll offset.
NavInputs ==
    { [op |-> "nav", list |-> l, n |-> n, state |-> ListState(sel, off)] :
        l \in {"ScheduleList", "ExperimentList", "ModeList"},
        n \in 0..MaxLen,
        sel \in {None} \cup { Some(i) : i \in 0..(MaxLen - 1) },
        off \in 0..1 } 

ValidNavInputs ==
    { x \in NavInputs :
        /\ x.state.selected # None => x.state.selected[1] < x.n
        /\ x.state.offset < (IF x.n = 0 THEN 1 ELSE x.n) }

\* An App with a field cursor, or none.
ToggleInputs ==
    { [op |-> "toggle", start |-> e] :
        e \in {None} \cup { Some(CurrentlyEditing[i]) : i \in 1..Len(CurrentlyEditing) } }

InitNav ==
    /\ h_in \in ValidNavInputs \cup ToggleInputs
    /\ h_out = IF h_in.op = "toggle"
               THEN [path |-> <<h_in.start>>, trail |-> <<>>]
               ELSE None
    /\ h_pc = "ready"
    /\ app = App_new(<<>>, <<>>) /\ scd_file = <<>> /\ bak_file = None
    /\ pc = "off" /\ edits_left = 0

\* list.next()
NavNext ==
    /\ h_pc = "ready" /\ h_in.op = "nav"
    /\ h_out' = [method |-> "next",
                 state |-> IF h_in.list = "ModeList"
                           THEN ModeList_next(h_in.n, h_in.state)
                           ELSE list_next(h_in.n, h_in.state)]
    /\ h_pc' = "moved"
    /\ UNCHANGED <<h_in, avars>>

\* list.previous()
NavPrevious ==
    /\ h_pc = "ready" /\ h_in.op = "nav"
    /\ h_out' = [method |-> "previous",
                 state |-> IF h_in.list = "ModeList"
                           THEN ModeList_previous(h_in.n, h_in.state)
                           ELSE list_previous(h_in.n, h_in.state)]
    /\ h_pc' = "moved"
    /\ UNCHANGED <<h_in, avars>>

\* list.first()
NavFirst ==
    /\ h_pc = "ready" /\ h_in.op = "nav"
    /\ h_out' = [method |-> "first",
                 state |-> IF h_in.list = "ModeList"
                           THEN ModeList_first(h_in.n, h_in.state)
                           ELSE list_first(h_in.n, h_in.state)]
    /\ h_pc' = "moved"
    /\ UNCHANGED <<h_in, avars>>

\* list.last()
NavLast ==
    /\ h_pc = "ready" /\ h_in.op = "nav"
    /\ h_out' = [method |-> "last",
                 state |-> IF h_in.list = "ModeList"
                           THEN ModeList_last(h_in.n, h_in.state)
                           ELSE list_last(h_in.n, h_in.state)]
    /\ h_pc' = "moved"
    /\ UNCHANGED <<h_in, avars>>

\* list.unselect(), which the entry list and the task list have
NavUnselect ==
    /\ h_pc = "ready" /\ h_in.op = "nav" /\ h_in.list # "ModeList"
    /\ h_out' = [method |-> "unselect", state |-> unselect(h_in.state)]
    /\ h_pc' = "cleared"
    /\ UNCHANGED <<h_in, avars>>

\* The field cursor after the moves so far.
Cursor == h_out.path[Len(h_out.path)]

\* app.forward_toggle()
NavForward ==
    /\ h_pc = "ready" /\ h_in.op = "toggle" /\ Len(h_out.trail) < MaxMoves
    /\ h_out' = [path |-> Append(h_out.path,
                     forward_toggle([currently_editing |-> Cursor]).currently_editing),
                 trail |-> Append(h_out.trail, "forward")]
    /\ UNCHANGED <<h_in, h_pc, avars>>

\* app.backward_toggle()
NavBackward ==
    /\ h_pc = "ready" /\ h_in.op = "toggle" /\ Len(h_out.trail) < MaxMoves
    /\ h_out' = [path |-> Append(h_out.path,
                     backward_toggle([currently_editing |-> Cursor]).currently_editing),
                 trail |-> Append(h_out.trail, "backward")]
    /\ UNCHANGED <<h_in, h_pc, avars>>

NextNav ==
    NavNext \/ NavPrevious \/ NavFirst \/ NavLast \/ NavUnselect \/ NavForward
    \/ NavBackward

SpecNav == InitNav /\ [][NextNav]_vars

(***************************************************************************)
(* main.rs: the session, one action per key of run_app                     *)
(***************************************************************************)

\* The characters and erasures one session may type into the form.
MaxEdits == 1

\* The characters the keyboard sends.
TypedChars == {"1"}

\* Lines a schedule file may hold when the program starts.
Line_2000 ==
    <<"2","0","0","0","0","1","0","1"," ","0","0",":","0","0"," ","6",
      "0"," ","0"," ","n","s"," ","c","o","m","m","o","n">>

Line_2024 ==
    <<"2","0","2","4","0","2","2","9"," ","1","2",":","0","5"," ","-",
      " ","0"," ","n","s"," ","s","p","e","c","i","a","l"," ","-","e">>

Line_zero ==
    <<"2","0","0","0","0","1","0","1"," ","0","0",":","0","0"," ","0",
      " ","0"," ","n","s"," ","c","o","m","m","o","n">>

\* The schedule files of the model: an empty one, one of two entries in
\* ascending order, one whose only line does not decode, one whose second
\* line of three does not decode, one of two entries in descending order,
\* one whose second line of three is not UTF-8.
Files ==
    << <<>>,
       Line_2000 \o <<"\n">> \o Line_2024 \o <<"\n">>,
       Line_zero \o <<"\n">>,
       Line_2000 \o <<"\n">> \o Line_zero \o <<"\n">> \o Line_2024 \o <<"\n">>,
       Line_2024 \o <<"\n">> \o Line_2000 \o <<"\n">>,
       Line_2000 \o <<"\n", Byte_FF, "\n">> \o Line_2024 \o <<"\n">> >>

\* What load_experiments found in the experiments directory, sorted.
ExperimentNames == << <<"n","s">>, <<"x">> >>

\* Texts of the eight input buffers (year, month, day, hour, minute,
\* duration, priority, kwargs).  The buffers outlive Esc, so the form holds
\* any text typed earlier when the Main screen is shown.
InputTexts ==
    <<
      << <<>>, <<>>, <<>>, <<>>, <<>>, <<>>, <<>>, <<>> >>,
      << <<"2","0","0","0">>, <<"1">>, <<"1">>, <<"0">>, <<"0">>, <<"1">>, <<"0">>, <<>> >>,
      << <<"2","0","5","0">>, <<"1","2">>, <<"3","1">>, <<"2","3">>, <<"5","9">>, <<"-">>, <<"0">>, <<"-","e">> >>,
      << <<"2","0","0","0">>, <<"1">>, <<"1">>, <<"0">>, <<"0">>, <<"0">>, <<"0">>, <<>> >>,
      << <<"2","0","2","4">>, <<"2">>, <<"2","9">>, <<"1","2">>, <<"5">>, <<"-">>, <<"5">>, <<>> >>,
      << <<"1","9","9","9">>, <<"1">>, <<"1">>, <<"0">>, <<"0">>, <<"1">>, <<"0">>, <<>> >>,
      << <<"2","0","0","1">>, <<"2">>, <<"2","9">>, <<"0">>, <<"0">>, <<"a","b">>, <<"2","1">>, <<>> >>,
      << <<"2","0","0","0">>, <<"1">>, <<"1">>, <<"0">>, <<"0">>, <<"a","b">>, <<"2","1">>, <<>> >>,
      << <<"2","0","0","0">>, <<"1">>, <<"1">>, <<"2","4">>, <<"6","0">>, <<"1">>, <<"0">>, <<>> >>,
      << <<"2","0","0","0">>, <<"1">>, <<"1">>, <<"0">>, <<"0">>, <<"0">>, <<"2","1">>, <<>> >>,
      << <<"d","a","y">>, <<"1">>, <<"1">>, <<"0">>, <<"0">>, <<"1">>, <<"0">>, <<>> >>,
      << <<"2","0","0","0">>, <<"1","3">>, <<"3","2">>, <<"2","4">>, <<"6","0">>, <<"a","b">>, <<"2","1">>, <<>> >> >>

\* The sessions of the model, each a schedule file, the texts of the form
\* and the characters that may be typed or erased: every text over the empty
\* file, the empty and a valid text over the file of two entries, the empty
\* text over every other file; typing over the empty file.
Sessions ==
    { <<Files[1], InputTexts[i], 0>> : i \in 1..Len(InputTexts) }
    \cup { <<Files[2], InputTexts[i], 0>> : i \in 1..2 }
    \cup { <<Files[i], InputTexts[1], 0>> : i \in 3..Len(Files) }
    \cup { <<Files[1], InputTexts[i], MaxEdits>> : i \in 1..2 }

with_inputs(a, t) ==
    [a EXCEPT !.year_input = t[1], !.month_input = t[2], !.day_input = t[3],
              !.hour_input = t[4], !.minute_input = t[5],
              !.duration_input = t[6], !.priority_input = t[7],
              !.kwarg_input = t[8]]

\* How save_schedule may fail: not at all, in fs::copy, in File::create or
\* in a write_all.
SaveFaults == {"none", "copy", "create", "write"}

Running == pc = "running"

\* main before App::new: the schedule file is on disk, nothing is loaded.
\* app holds what App::new builds apart from the schedule.
Init ==
    \E session \in Sessions :
       /\ scd_file = session[1]
       /\ bak_file = None
       /\ edits_left = session[3]
       /\ pc = "start"
       /\ app = with_inputs(App_new(<<>>, ExperimentNames), session[2])
       /\ h_in = [op |-> "off"] /\ h_out = None /\ h_pc = "off"

\* The expect of App::new on what load_schedule returned: a panic, or the
\* App with the schedule and run_app drawing the first frame.
launched(current_schedule) ==
    IF current_schedule.ok
    THEN /\ pc' = "running"
         /\ app' = ui([app EXCEPT !.schedule_list.lines = current_schedule.val])
    ELSE /\ pc' = "load_failed"
         /\ app' = app

\* App::new
Launch ==
    /\ pc = "start"
    /\ launched(load_schedule(scd_file))
    /\ UNCHANGED <<scd_file, bak_file, edits_left, hvars>>

\* One turn of the loop of run_app: the key is handled, the frame redrawn.
Key(a) ==
    /\ app' = ui(a)
    /\ UNCHANGED <<scd_file, bak_file, pc, edits_left, hvars>>

\* Main, 'a'
MainAdd ==
    /\ Running /\ app.current_screen = "Main"
    /\ Key([app EXCEPT !.current_screen = "Adding",
                       !.currently_editing = Some("Year")])

\* Main, 'r'
MainRemove ==
    /\ Running /\ app.current_screen = "Main"
    /\ Key([app EXCEPT !.current_screen = "Removing", !.currently_editing = None])

\* Main, 'q'
MainQuit ==
    /\ Running /\ app.current_screen = "Main"
    /\ Key([app EXCEPT !.current_screen = "Exiting"])

\* A variant of target_after in which the file is created before the copy.
target_after_create_first(a, fault, written) ==
    IF fault = "copy" THEN <<>>
    ELSE IF fault = "create" THEN scd_file
    ELSE save_schedule(a, written)

\* The schedule file after save_schedule: untouched when the copy or
\* File::create failed, else truncated and holding what the loop wrote.
target_after(a, fault, written) ==
    IF fault \in {"copy", "create"} THEN scd_file
    ELSE save_schedule(a, written)

\* The backup file after save_schedule: the schedule file as it was, unless
\* the copy failed.
backup_after(fault) == IF fault = "copy" THEN bak_file ELSE Some(scd_file)

\* How main ends after save_schedule: the unwrap panics with the error.
ended(fault) ==
    CASE fault = "none" -> "saved"
      [] fault = "copy" -> "copy_failed"
      [] fault = "create" -> "create_failed"
      [] fault = "write" -> "write_failed"

\* Exiting, 'y': run_app returns Ok(true) and main saves the schedule.  A
\* write_all that fails leaves the entries written before it.
ExitYes ==
    /\ Running /\ app.current_screen = "Exiting"
    /\ \E fault \in SaveFaults, written \in 0..Len(app.schedule_list.lines) :
          /\ IF fault = "write" THEN written < Len(app.schedule_list.lines)
             ELSE written = Len(app.schedule_list.lines)
          /\ bak_file' = backup_after(fault)
          /\ scd_file' = target_after(app, fault, written)
          /\ pc' = ended(fault)
    /\ UNCHANGED <<app, edits_left, hvars>>

\* A variant of ExitNo that saves the schedule before it leaves.
ExitNo_saves ==
    /\ Running /\ app.current_screen = "Exiting"
    /\ bak_file' = Some(scd_file)
    /\ scd_file' = save_schedule(app, Len(app.schedule_list.lines))
    /\ pc' = "discarded"
    /\ UNCHANGED <<app, edits_left, hvars>>

\* Exiting, 'n': run_app returns Ok(false), nothing is written.
ExitNo ==
    /\ Running /\ app.current_screen = "Exiting"
    /\ pc' = "discarded"
    /\ UNCHANGED <<app, scd_file, bak_file, edits_left, hvars>>

\* Exiting, 'b'
ExitBack ==
    /\ Running /\ app.current_screen = "Exiting"
    /\ Key([app EXCEPT !.current_screen = "Main"])

\* Removing, 'q'
RemovingQuit ==
    /\ Running /\ app.current_screen = "Removing"
    /\ Key([app EXCEPT !.current_screen = "Exiting"])

\* Removing, Enter
RemovingEnter ==
    /\ Running /\ app.current_screen = "Removing"
    /\ Key(remove_schedule_line([app EXCEPT !.current_screen = "Main"]))

\* Removing, Down or Tab
RemovingNext ==
    /\ Running /\ app.current_screen = "Removing"
    /\ Key([app EXCEPT !.schedule_list.state =
                list_next(Len(app.schedule_list.lines), @)])

\* Removing, Up
RemovingPrevious ==
    /\ Running /\ app.current_screen = "Removing"
    /\ Key([app EXCEPT !.schedule_list.state =
                list_previous(Len(app.schedule_list.lines), @)])

\* Removing, 'g'
RemovingFirst ==
    /\ Running /\ app.current_screen = "Removing"
    /\ Key([app EXCEPT !.schedule_list.state =
                list_first(Len(app.schedule_list.lines), @)])

\* Removing, 'G'
RemovingLast ==
    /\ Running /\ app.current_screen = "Removing"
    /\ Key([app EXCEPT !.schedule_list.state =
                list_last(Len(app.schedule_list.lines), @)])

\* Removing, Esc
RemovingEsc ==
    /\ Running /\ app.current_screen = "Removing"
    /\ Key([app EXCEPT !.current_screen = "Main",
                       !.schedule_list.state = unselect(@)])

\* Removing, PageDown
RemovingPageDown ==
    /\ Running /\ app.current_screen = "Removing"
    /\ Key([app EXCEPT !.schedule_list.state = scroll_down_by(@, 30)])

\* Removing, PageUp
RemovingPageUp ==
    /\ Running /\ app.current_screen = "Removing"
    /\ Key([app EXCEPT !.schedule_list.state = scroll_up_by(@, 30)])

\* Selecting, 'q'
SelectingQuit ==
    /\ Running /\ app.current_screen = "Selecting"
    /\ Key([app EXCEPT !.current_screen = "Exiting"])

\* Selecting, Enter or Left
SelectingAccept ==
    /\ Running /\ app.current_screen = "Selecting"
    /\ Key([app EXCEPT !.current_screen = "Adding"])

\* A variant of SelectingNext that moves the cursor of the mode list
\* whatever the field is.
SelectingNext_mode_list ==
    /\ Running /\ app.current_screen = "Selecting"
    /\ Key([app EXCEPT !.mode_list.state =
                ModeList_next(Len(app.mode_list.modes), @)])

\* Selecting, Down or Tab
SelectingNext ==
    /\ Running /\ app.current_screen = "Selecting"
    /\ Key(IF app.currently_editing = Some("Experiment")
           THEN [app EXCEPT !.experiment_list.state =
                     list_next(Len(app.experiment_list.items), @)]
           ELSE IF app.currently_editing = Some("SchedulingMode")
           THEN [app EXCEPT !.mode_list.state =
                     ModeList_next(Len(app.mode_list.modes), @)]
           ELSE app)

\* Selecting, Up
SelectingPrevious ==
    /\ Running /\ app.current_screen = "Selecting"
    /\ Key(IF app.currently_editing = Some("Experiment")
           THEN [app EXCEPT !.experiment_list.state =
                     list_previous(Len(app.experiment_list.items), @)]
           ELSE IF app.currently_editing = Some("SchedulingMode")
           THEN [app EXCEPT !.mode_list.state =
                     ModeList_previous(Len(app.mode_list.modes), @)]
           ELSE app)

\* Selecting, 'g'
SelectingFirst ==
    /\ Running /\ app.current_screen = "Selecting"
    /\ Key(IF app.currently_editing = Some("Experiment")
           THEN [app EXCEPT !.experiment_list.state =
                     list_first(Len(app.experiment_list.items), @)]
           ELSE IF app.currently_editing = Some("SchedulingMode")
           THEN [app EXCEPT !.mode_list.state =
                     ModeList_first(Len(app.mode_list.modes), @)]
           ELSE app)

\* Selecting, 'G'
SelectingLast ==
    /\ Running /\ app.current_screen = "Selecting"
    /\ Key(IF app.currently_editing = Some("Experiment")
           THEN [app EXCEPT !.experiment_list.state =
                     list_last(Len(app.experiment_list.items), @)]
           ELSE IF app.currently_editing = Some("SchedulingMode")
           THEN [app EXCEPT !.mode_list.state =
                     ModeList_last(Len(app.mode_list.modes), @)]
           ELSE app)

\* Selecting, Esc
SelectingEsc ==
    /\ Running /\ app.current_screen = "Selecting"
    /\ Key([app EXCEPT !.current_screen = "Main", !.currently_editing = None])

\* A variant of route that leaves the cursor where it is.
route_stays(a, e) == a

\* The field a failed submission moves the cursor to (the match on the
\* error in the Enter arm); the cursor stays for the other errors.
route(a, e) ==
    IF e.kind = "InvalidDate" /\ contains(e.msg, <<"d","a","y">>)
    THEN [a EXCEPT !.currently_editing = Some("Day")]
    ELSE IF e.kind = "InvalidDate" /\ contains(e.msg, <<"m","o","n","t","h">>)
    THEN [a EXCEPT !.currently_editing = Some("Month")]
    ELSE IF e.kind = "InvalidDate"
    THEN [a EXCEPT !.currently_editing = Some("Year")]
    ELSE IF e.kind = "InvalidTime" /\ contains(e.msg, <<"m","i","n","u","t","e">>)
    THEN [a EXCEPT !.currently_editing = Some("Minute")]
    ELSE IF e.kind = "InvalidTime"
    THEN [a EXCEPT !.currently_editing = Some("Hour")]
    ELSE IF e.kind = "InvalidDuration"
    THEN [a EXCEPT !.currently_editing = Some("Duration")]
    ELSE IF e.kind = "InvalidPriority"
    THEN [a EXCEPT !.currently_editing = Some("Priority")]
    ELSE IF e.kind = "InvalidMode"
    THEN [a EXCEPT !.currently_editing = Some("SchedulingMode")]
    ELSE a

\* A variant of submitted that closes the form after a failure too.
submitted_closes(r) ==
    [r.app EXCEPT !.currently_editing = None, !.current_screen = "Main"]

\* The match on what save_entry returned: Main after a success, the cursor
\* on the field at fault after a failure.
submitted(r) ==
    IF r.res.ok
    THEN [r.app EXCEPT !.currently_editing = None, !.current_screen = "Main"]
    ELSE route(r.app, r.res)

\* A variant of AddingEnter that submits the form on every field.
AddingEnter_submits_anywhere ==
    /\ Running /\ app.current_screen = "Adding"
    /\ Key(IF app.currently_editing = None THEN app
           ELSE submitted(save_entry(app)))

\* Adding, Enter: on Done the entry is submitted, elsewhere the cursor
\* moves forward.
AddingEnter ==
    /\ Running /\ app.current_screen = "Adding"
    /\ Key(IF app.currently_editing = None THEN app
           ELSE IF app.currently_editing = Some("Done")
           THEN submitted(save_entry(app))
           ELSE forward_toggle(app))

\* Adding, End
AddingEnd ==
    /\ Running /\ app.current_screen = "Adding"
    /\ Key(IF app.currently_editing # None
           THEN [app EXCEPT !.currently_editing = Some("Done")]
           ELSE app)

\* String::pop on the buffer of the field being edited, if it has one.
pop(a) ==
    IF a.currently_editing # None /\ a.currently_editing[1] \in DOMAIN InputOf
    THEN [a EXCEPT ![InputOf[a.currently_editing[1]]] =
              SubSeq(@, 1, Len(@) - 1)]
    ELSE a

\* A variant of push that writes to the year buffer whatever the field is.
push_year(a, value) ==
    IF a.currently_editing # None
    THEN [a EXCEPT !.year_input = Append(@, value)]
    ELSE a

\* String::push(value) on the buffer of the field being edited, if it has one.
push(a, value) ==
    IF a.currently_editing # None /\ a.currently_editing[1] \in DOMAIN InputOf
    THEN [a EXCEPT ![InputOf[a.currently_editing[1]]] = Append(@, value)]
    ELSE a

\* Adding, Backspace
AddingBackspace ==
    /\ Running /\ app.current_screen = "Adding"
    /\ pop(app) # app => edits_left > 0
    /\ app' = ui(pop(app))
    /\ edits_left' = IF pop(app) # app THEN edits_left - 1 ELSE edits_left
    /\ UNCHANGED <<scd_file, bak_file, pc, hvars>>

\* Adding, Esc
AddingEsc ==
    /\ Running /\ app.current_screen = "Adding"
    /\ Key([app EXCEPT !.current_screen = "Main", !.currently_editing = None])

\* Adding, Tab or Down
AddingForward ==
    /\ Running /\ app.current_screen = "Adding"
    /\ Key(forward_toggle(app))

\* Adding, Up
AddingBackward ==
    /\ Running /\ app.current_screen = "Adding"
    /\ Key(backward_toggle(app))

\* Adding, a character key
AddingChar ==
    /\ Running /\ app.current_screen = "Adding"
    /\ \E value \in TypedChars :
          /\ push(app, value) # app => edits_left > 0
          /\ app' = ui(push(app, value))
          /\ edits_left' = IF push(app, value) # app THEN edits_left - 1
                           ELSE edits_left
    /\ UNCHANGED <<scd_file, bak_file, pc, hvars>>

\* A variant of AddingRight that opens the Selecting screen from every field.
AddingRight_any_field ==
    /\ Running /\ app.current_screen = "Adding"
    /\ Key([app EXCEPT !.current_screen = "Selecting", !.last_err = None])

\* Adding, Right
AddingRight ==
    /\ Running /\ app.current_screen = "Adding"
    /\ Key(IF app.currently_editing \in {Some("Experiment"), Some("SchedulingMode")}
           THEN [app EXCEPT !.current_screen = "Selecting", !.last_err = None]
           ELSE app)

Next ==
    \/ Launch
    \/ MainAdd \/ MainRemove \/ MainQuit
    \/ ExitYes \/ ExitNo \/ ExitBack
    \/ RemovingQuit \/ RemovingEnter \/ RemovingNext \/ RemovingPrevious
    \/ RemovingFirst \/ RemovingLast \/ RemovingEsc
    \/ RemovingPageDown \/ RemovingPageUp
    \/ SelectingQuit \/ SelectingAccept \/ SelectingNext \/ SelectingPrevious
    \/ SelectingFirst \/ SelectingLast \/ SelectingEsc
    \/ AddingEnter \/ AddingEnd \/ AddingBackspace \/ AddingEsc
    \/ AddingForward \/ AddingBackward \/ AddingChar \/ AddingRight

Spec == Init /\ [][Next]_vars

(***************************************************************************)
(* Properties of the codec                                                 *)
(***************************************************************************)

\* The number of pieces single spaces cut a line into.
TokenCount(line) == 1 + Cardinality({ i \in 1..Len(line) : line[i] = " " })

\* A decode of the input line has returned (its result stays in h_out.res).
DecodeDone == h_in.op = "decode" /\ h_pc # "ready"

NewDone == h_in.op = "new" /\ h_pc # "ready"

\* Minutes on a common scale, for comparing instants.
TsKey(t) == ((((t.y * 12 + t.mo) * 31 + t.d) * 24 + t.h) * 60) + t.mi

\* 2000-01-01T00:00Z <= t < 2051-01-01T00:00Z
InRange(t) ==
    /\ TsKey(Timestamp(2000, 1, 1, 0, 0)) <= TsKey(t)
    /\ TsKey(t) < TsKey(Timestamp(2051, 1, 1, 0, 0))

\* The value of the digits of tok from position i to position j.
Num(tok, i, j) == DigitsVal(SubSeq(tok, i, j))

\* A date token: four digits of year, two of month, one or two of day, that
\* name a day of the calendar.
ValidDateTok(tok) ==
    /\ Len(tok) \in {7, 8}
    /\ AllDigits(tok)
    /\ Num(tok, 5, 6) \in 1..12
    /\ Num(tok, 7, Len(tok)) \in 1..DaysInMonth(Num(tok, 1, 4), Num(tok, 5, 6))

\* A time token: one or two digits of hour (0..23), a colon, one or two
\* digits of minute (0..59).
ValidTimeTok(tok) ==
    \E c \in {2, 3} :
        /\ Len(tok) \in (c + 1)..(c + 2)
        /\ tok[c] = ":"
        /\ AllDigits(SubSeq(tok, 1, c - 1))
        /\ AllDigits(SubSeq(tok, c + 1, Len(tok)))
        /\ Num(tok, 1, c - 1) \in 0..23
        /\ Num(tok, c + 1, Len(tok)) \in 0..59

\* The priority tokens that are an integer of 0..=20, each with its value.
PrioTokens == { NatToStr(n) : n \in 0..20 }

PrioOf(tok) == CHOOSE n \in 0..20 : NatToStr(n) = tok

\* The duration tokens that are a positive count of minutes.
MinuteTokens == { NatToStr(n) : n \in 1..1500 }

MinutesOf(tok) == CHOOSE n \in 1..1500 : NatToStr(n) = tok

\* The three mode tokens and the mode each stands for.
ModeTokens ==
    { <<"c","o","m","m","o","n">>,
      <<"d","i","s","c","r","e","t","i","o","n","a","r","y">>,
      <<"s","p","e","c","i","a","l">> }

ModeOf(tok) ==
    IF tok[1] = "c" THEN "Common"
    ELSE IF tok[1] = "d" THEN "Discretionary" ELSE "Special"

\* The date and time tokens name an instant of the accepted range.
InRangeToks(toks) ==
    /\ ValidDateTok(toks[1]) /\ ValidTimeTok(toks[2])
    /\ Num(toks[1], 1, 4) \in 2000..2050

\* Every token of a line of six or more is valid, and so is their combination.
GoodToks(toks) ==
    /\ Len(toks) >= 6
    /\ InRangeToks(toks)
    /\ toks[4] \in PrioTokens
    /\ \/ toks[3] \in MinuteTokens
       \/ toks[3] = <<"-">> /\ toks[4] = <<"0">>
    /\ toks[6] \in ModeTokens

IsErr(r, kind) == ~r.ok /\ r.kind = kind

\* C1: encoding an entry and decoding the line again succeeds and yields the
\* entry: the one ScheduleLine::new was given, or the one a decode returned.
C1_RoundTrip ==
    h_pc = "redecoded" =>
        /\ h_out.back.ok
        /\ h_out.back.val = h_out.res.val
        /\ h_in.op = "new" =>
              h_out.back.val = ScheduleLine(h_in.ts, h_in.dur, h_in.prio,
                                            h_in.exp, h_in.mode, h_in.kw)

\* C1 witness: an entry of infinite duration with a kwarg went round.
C1_Witness ==
    /\ h_pc = "redecoded" /\ h_in.op = "new"
    /\ h_in.dur.inf /\ h_in.kw = << <<"-","e">> >>
    /\ h_out.back.ok

\* C2: an accepted entry lies in [2000-01-01T00:00Z, 2051-01-01T00:00Z), and
\* ScheduleLine::new rejects every instant outside it with InvalidDate.
C2_TimestampRange ==
    /\ (DecodeDone \/ NewDone) /\ h_out.res.ok => InRange(h_out.res.val.timestamp)
    /\ NewDone /\ ~InRange(h_in.ts) => IsErr(h_out.res, "InvalidDate")

\* C3: with Infinite duration a priority >= 1 is refused, with InvalidPriority
\* when the other fields are valid, and priority 0 is accepted when they are.
C3_InfiniteRule ==
    /\ NewDone /\ h_in.dur.inf =>
          /\ h_in.prio >= 1 => ~h_out.res.ok
          /\ h_in.prio >= 1 /\ InRange(h_in.ts) =>
                IsErr(h_out.res, "InvalidPriority")
          /\ h_in.prio = 0 /\ InRange(h_in.ts) => h_out.res.ok
    /\ DecodeDone /\ Len(h_in.toks) >= 6 /\ h_in.toks[3] = <<"-">> =>
          /\ h_in.toks[4] \in PrioTokens \ {<<"0">>} => ~h_out.res.ok
          /\ /\ h_in.toks[4] \in PrioTokens \ {<<"0">>}
             /\ InRangeToks(h_in.toks) /\ h_in.toks[6] \in ModeTokens
             => IsErr(h_out.res, "InvalidPriority")
          /\ GoodToks(h_in.toks) =>
                h_out.res.ok /\ h_out.res.val.duration = Infinite
                /\ h_out.res.val.priority = 0

\* C3 witness: new refused Infinite with priority 1 on a valid instant.
C3_Witness ==
    /\ NewDone /\ h_in.dur.inf /\ h_in.prio = 1 /\ InRange(h_in.ts)
    /\ IsErr(h_out.res, "InvalidPriority")

\* An entry keeps the duration rule of ScheduleLine::new: Finite of at least
\* one minute, or Infinite with priority 0.
DurationRule(line) ==
    IF line.duration.inf THEN line.priority = 0 ELSE line.duration.min >= 1

\* C4: in every reachable state every entry of the live list, loaded from the
\* file or added through the edit session, has a Finite duration of at least
\* 1 minute or an Infinite duration with priority 0.
C4_LiveListDurations ==
    \A i \in 1..Len(app.schedule_list.lines) :
        DurationRule(app.schedule_list.lines[i])

\* C5: a priority token that is no integer of 0..=20 makes the decode fail
\* with InvalidPriority and a message containing the token; 0 and 20 pass.
C5_PriorityToken ==
    DecodeDone /\ Len(h_in.toks) >= 6 =>
        /\ InRangeToks(h_in.toks) /\ h_in.toks[4] \notin PrioTokens =>
              /\ IsErr(h_out.res, "InvalidPriority")
              /\ contains(h_out.res.msg, h_in.toks[4])
        /\ GoodToks(h_in.toks) =>
              h_out.res.ok /\ h_out.res.val.priority = PrioOf(h_in.toks[4])

\* C5 witness: the token 21 was refused, the message naming it.
C5_Witness ==
    /\ DecodeDone /\ Len(h_in.toks) >= 6 /\ h_in.toks[4] = <<"2","1">>
    /\ h_out.res = Err("InvalidPriority", <<"2","1"," ",">"," ","2","0">>)

\* C6: the duration token "-" decodes to Infinite, a positive integer n to
\* Finite(n), anything else fails with InvalidDuration.
C6_DurationToken ==
    /\ h_pc = "duration" =>
          IF h_in.tok = <<"-">> THEN h_out.res = Ok(Infinite)
          ELSE IF h_in.tok \in MinuteTokens
               THEN h_out.res = Ok(Finite(MinutesOf(h_in.tok)))
               ELSE IsErr(h_out.res, "InvalidDuration")
    /\ DecodeDone /\ Len(h_in.toks) >= 6 =>
          /\ h_out.res.ok =>
                IF h_in.toks[3] = <<"-">> THEN h_out.res.val.duration = Infinite
                ELSE /\ h_in.toks[3] \in MinuteTokens
                     /\ h_out.res.val.duration = Finite(MinutesOf(h_in.toks[3]))
          /\ /\ InRangeToks(h_in.toks) /\ h_in.toks[4] \in PrioTokens
             /\ h_in.toks[6] \in ModeTokens
             /\ h_in.toks[3] \notin MinuteTokens \cup {<<"-">>}
             => IsErr(h_out.res, "InvalidDuration")

\* C6 witness: the token 0 was refused as a duration, alone and in a line.
C6_Witness ==
    \/ h_pc = "duration" /\ h_in.tok = <<"0">> /\ IsErr(h_out.res, "InvalidDuration")
    \/ /\ DecodeDone /\ Len(h_in.toks) >= 6 /\ h_in.toks[3] = <<"-","1","0">>
       /\ IsErr(h_out.res, "InvalidDuration")

\* C7: a line of fewer than 6 tokens fails with MissingFields whatever the
\* tokens are, and a line of 6 or more never does.
C7_MissingFields ==
    DecodeDone =>
        (TokenCount(h_in.line) < 6 <=> IsErr(h_out.res, "MissingFields"))

\* C7 witness: a line of five tokens whose date is invalid failed with
\* MissingFields.
C7_Witness ==
    /\ DecodeDone /\ TokenCount(h_in.line) = 5
    /\ ~ValidDateTok(h_in.toks[1])
    /\ IsErr(h_out.res, "MissingFields")

\* C8: decode accepts exactly the three lowercase mode tokens, mapping each
\* to its mode, answers InvalidMode to any other, and encode writes them.
C8_ModeToken ==
    /\ DecodeDone /\ Len(h_in.toks) >= 6 =>
          /\ h_out.res.ok =>
                /\ h_in.toks[6] \in ModeTokens
                /\ h_out.res.val.scheduling_mode = ModeOf(h_in.toks[6])
          /\ /\ InRangeToks(h_in.toks) /\ h_in.toks[4] \in PrioTokens
             /\ h_in.toks[6] \notin ModeTokens
             => IsErr(h_out.res, "InvalidMode")
    /\ h_pc \in {"encoded", "redecoded"} =>
          /\ split(h_out.text)[6] \in ModeTokens
          /\ ModeOf(split(h_out.text)[6]) = h_out.res.val.scheduling_mode

\* C8 witness: the token Common, in another letter case, was refused.
C8_Witness ==
    /\ DecodeDone /\ Len(h_in.toks) >= 6
    /\ h_in.toks[6] = <<"C","o","m","m","o","n">>
    /\ IsErr(h_out.res, "InvalidMode")

StrLt(a, b) ==
    \E k \in 0..Len(a) :
        /\ k <= Len(b) /\ SubSeq(a, 1, k) = SubSeq(b, 1, k)
        /\ \/ k = Len(a) /\ k < Len(b)
           \/ k < Len(a) /\ k < Len(b) /\ CharCode(a[k + 1]) < CharCode(b[k + 1])

VecLt(a, b) ==
    \E k \in 0..Len(a) :
        /\ k <= Len(b) /\ SubSeq(a, 1, k) = SubSeq(b, 1, k)
        /\ \/ k = Len(a) /\ k < Len(b)
           \/ k < Len(a) /\ k < Len(b) /\ StrLt(a[k + 1], b[k + 1])

\* The fields of an entry in the order of the key, and a < b on field i.
FieldOf(e, i) ==
    CASE i = 1 -> e.timestamp   [] i = 2 -> e.duration
      [] i = 3 -> e.priority    [] i = 4 -> e.experiment
      [] i = 5 -> e.scheduling_mode [] i = 6 -> e.kwargs

FieldLt(a, b, i) ==
    CASE i = 1 -> TsKey(a.timestamp) < TsKey(b.timestamp)
      [] i = 2 -> \/ a.duration.inf /\ ~b.duration.inf
                  \/ ~a.duration.inf /\ ~b.duration.inf
                     /\ a.duration.min < b.duration.min
      [] i = 3 -> a.priority < b.priority
      [] i = 4 -> StrLt(a.experiment, b.experiment)
      [] i = 5 -> <<a.scheduling_mode, b.scheduling_mode>> \in
                     { <<"Common", "Discretionary">>, <<"Common", "Special">>,
                       <<"Discretionary", "Special">> }
      [] i = 6 -> VecLt(a.kwargs, b.kwargs)

\* The lexicographic order on the key: the first differing field decides.
LexOrder(a, b) ==
    IF a = b THEN "Equal"
    ELSE LET i == CHOOSE i \in 1..6 :
                      /\ FieldOf(a, i) # FieldOf(b, i)
                      /\ \A j \in 1..(i - 1) : FieldOf(a, j) = FieldOf(b, j)
         IN  IF FieldLt(a, b, i) THEN "Less" ELSE "Greater"

\* C10: cmp is the lexicographic order on (timestamp, duration, priority,
\* task, mode, kwargs); an earlier timestamp alone makes an entry smaller.
C10_TotalOrder ==
    h_pc = "compared" =>
        /\ h_out.res = LexOrder(h_in.a, h_in.b)
        /\ TsKey(h_in.a.timestamp) < TsKey(h_in.b.timestamp) =>
              h_out.res = "Less"

\* C10 witness: a is earlier than b and larger in every other field, and
\* compared Less.
C10_Witness ==
    /\ h_pc = "compared" /\ h_out.res = "Less"
    /\ TsKey(h_in.a.timestamp) < TsKey(h_in.b.timestamp)
    /\ \A i \in 2..6 : FieldLt(h_in.b, h_in.a, i)

(***************************************************************************)
(* Properties of the lists and of the field cursor                         *)
(***************************************************************************)

\* A list operation has returned (its result stays in h_out.state).
Moved(method) == h_in.op = "nav" /\ h_pc = "moved" /\ h_out.method = method

\* C11: on a non-empty list of n items next moves the cursor from i to i+1
\* and from n-1 to 0, previous from i to i-1 and from 0 to n-1, and both move
\* an unselected cursor to 0.
C11_NextPrevious ==
    h_in.op = "nav" /\ h_pc = "moved" /\ h_in.n >= 1 =>
        LET n   == h_in.n
            sel == h_in.state.selected
            out == h_out.state.selected
        IN  /\ h_out.method = "next" =>
                  out = Some(IF sel = None THEN 0 ELSE (sel[1] + 1) % n)
            /\ h_out.method = "previous" =>
                  out = Some(IF sel = None THEN 0 ELSE (sel[1] + n - 1) % n)

\* C11 witness: next on the last of three entries wrapped to the first.
C11_Witness ==
    /\ Moved("next") /\ h_in.list = "ScheduleList" /\ h_in.n = 3
    /\ h_in.state.selected = Some(2)
    /\ h_out.state.selected = Some(0)

\* C12: on an empty list next, previous, first and last each leave the
\* cursor at None, for the entry list, the task list and the mode list.
C12_EmptyList ==
    h_in.op = "nav" /\ h_pc = "moved" /\ h_in.n = 0 =>
        /\ h_in.state.selected = None
        /\ h_out.state.selected = None
        /\ h_out.method \in {"next", "previous", "first", "last"}

\* C12 witness: first on an empty task list returned with no selection.
C12_Witness ==
    /\ Moved("first") /\ h_in.list = "ExperimentList" /\ h_in.n = 0
    /\ h_out.state.selected = None

\* The field after e in the cycle Year .. Done .. Year, by position.
After(e) == CurrentlyEditing[(EditingIndex(e) % Len(CurrentlyEditing)) + 1]

\* The moves k .. k+m-1 of the trail are all in direction dir.
Run(k, m, dir) ==
    /\ k + m - 1 <= Len(h_out.trail)
    /\ \A j \in k..(k + m - 1) : h_out.trail[j] = dir

\* C13: while a field is current forward moves along the cycle Year, Month,
\* Day, Hour, Minute, Duration, Priority, Task, Mode, Kwargs, Done, Year and
\* backward is its inverse: backward after forward and forward after
\* backward return to the same field, eleven forwards to the starting field.
C13_FieldCycle ==
    h_in.op = "toggle" /\ h_in.start # None =>
        LET path == h_out.path
            trail == h_out.trail
        IN  /\ \A k \in 1..Len(trail) :
                  /\ path[k + 1] # None
                  /\ trail[k] = "forward" => path[k + 1][1] = After(path[k][1])
                  /\ trail[k] = "backward" => path[k][1] = After(path[k + 1][1])
            /\ \A k \in 1..(Len(trail) - 1) :
                  trail[k] # trail[k + 1] => path[k + 2] = path[k]
            /\ \A k \in 1..Len(trail) :
                  Run(k, 11, "forward") => path[k + 11] = path[k]

\* C13 witness: eleven forwards from Priority came back to Priority, passing
\* Done and Year.
C13_Witness ==
    /\ h_in.op = "toggle" /\ h_in.start = Some("Priority")
    /\ Len(h_out.trail) = 11 /\ Run(1, 11, "forward")
    /\ h_out.path[5] = Some("Done") /\ h_out.path[6] = Some("Year")
    /\ Cursor = Some("Priority")

(***************************************************************************)
(* Properties of the session                                               *)
(***************************************************************************)

\* The eight text buffers of the form.
Buffers(a) ==
    <<a.year_input, a.month_input, a.day_input, a.hour_input, a.minute_input,
      a.duration_input, a.priority_input, a.kwarg_input>>

EmptyBuffers == <<<<>>, <<>>, <<>>, <<>>, <<>>, <<>>, <<>>, <<>>>>

\* The step is a submit: Enter on the Adding screen with the cursor on Done.
Submit == AddingEnter /\ app.currently_editing = Some("Done")

\* How often x occurs in seq.
Count(x, seq) == Cardinality({ i \in 1..Len(seq) : seq[i] = x })

\* a and b hold the same entries, each as often.
SameEntries(a, b) ==
    /\ Len(a) = Len(b)
    /\ \A i \in 1..Len(a) : Count(a[i], a) = Count(a[i], b)

\* No entry of the list is smaller than one after it.
Descending(lines) ==
    \A i \in 1..Len(lines) : \A j \in (i + 1)..Len(lines) :
        ScheduleLine_cmp(lines[i], lines[j]) # "Less"

\* C14: a successful submit appends the new entry to the live list, which is
\* then in descending order, and to the additions ledger, empties the eight
\* text buffers, sets the last error to none and leaves the session not
\* editing on the Main screen.
C14_SubmitSuccess ==
    [][Submit /\ create_line_from_inputs(app).ok =>
        /\ app'.additions = Append(app.additions, create_line_from_inputs(app).val)
        /\ SameEntries(app'.schedule_list.lines,
                       Append(app.schedule_list.lines,
                              create_line_from_inputs(app).val))
        /\ Descending(app'.schedule_list.lines)
        /\ Buffers(app') = EmptyBuffers
        /\ app'.last_err = None
        /\ app'.currently_editing = None
        /\ app'.current_screen = "Main"
        /\ app'.deletions = app.deletions]_vars

\* C14 witness: an entry was added to the two loaded ones; it is in the
\* ledger and in the list, the form is empty and closed.
C14_Witness ==
    /\ pc = "running" /\ app.current_screen = "Main"
    /\ app.currently_editing = None /\ app.last_err = None
    /\ Len(app.additions) = 1 /\ app.deletions = <<>>
    /\ Len(app.schedule_list.lines) = 3
    /\ Count(app.additions[1], app.schedule_list.lines) = 1
    /\ Buffers(app) = EmptyBuffers

\* C15: a failed submit adds no entry: the text buffers, the live list and
\* both ledgers are unchanged, the error returned is in the last-error slot
\* and a field is still current on the Adding screen.
C15_SubmitFailure ==
    [][Submit /\ ~create_line_from_inputs(app).ok =>
        /\ Buffers(app') = Buffers(app)
        /\ app'.schedule_list = app.schedule_list
        /\ app'.additions = app.additions
        /\ app'.deletions = app.deletions
        /\ app'.last_err = Some(create_line_from_inputs(app))
        /\ app'.currently_editing # None
        /\ app'.current_screen = "Adding"]_vars

\* C15 witness: a submit of a form with the duration text "ab" over the
\* empty file failed; the texts are kept, nothing was added.
C15_Witness ==
    /\ pc = "running" /\ app.current_screen = "Adding"
    /\ app.last_err # None /\ app.last_err[1].kind = "InvalidDuration"
    /\ app.currently_editing = Some("Duration")
    /\ app.duration_input = <<"a", "b">> /\ app.year_input = <<"2", "0", "0", "0">>
    /\ app.schedule_list.lines = <<>> /\ app.additions = <<>>

\* The fields a failed submit may move the cursor to, by error kind.
FieldsOf ==
    [InvalidDate |-> {"Year", "Month", "Day"},
     InvalidTime |-> {"Hour", "Minute"},
     InvalidDuration |-> {"Duration"},
     InvalidPriority |-> {"Priority"},
     InvalidMode |-> {"SchedulingMode"}]

\* C16: after a failed submit the current field follows the error kind:
\* InvalidDate gives Year, Month or Day, InvalidTime Hour or Minute,
\* InvalidDuration Duration, InvalidPriority Priority, InvalidMode Mode; it
\* is never Done and never a field of another kind.
C16_Routing ==
    [][Submit /\ ~create_line_from_inputs(app).ok =>
        /\ app'.last_err # None
        /\ app'.last_err[1].kind \in DOMAIN FieldsOf
        /\ app'.currently_editing # None
        /\ app'.currently_editing[1] \in FieldsOf[app'.last_err[1].kind]]_vars

\* C16 witness: the form with hour "24" and minute "60" failed with
\* InvalidTime and the cursor is on Hour.
C16_Witness ==
    /\ pc = "running" /\ app.current_screen = "Adding"
    /\ app.hour_input = <<"2", "4">> /\ app.minute_input = <<"6", "0">>
    /\ app.last_err # None /\ app.last_err[1].kind = "InvalidTime"
    /\ app.currently_editing = Some("Hour")

\* The step is a cancel: Esc on the Adding or the Selecting screen.
Cancel == AddingEsc \/ SelectingEsc

\* C17: cancel during an add empties every text buffer, clears the last
\* error, leaves the session not editing and the live list and both ledgers
\* unchanged.
C17_Cancel ==
    [][Cancel =>
        /\ Buffers(app') = EmptyBuffers
        /\ app'.last_err = None
        /\ app'.currently_editing = None
        /\ app'.schedule_list.lines = app.schedule_list.lines
        /\ app'.additions = app.additions
        /\ app'.deletions = app.deletions]_vars

\* main has ended in a failure of save_schedule.
SaveFailed == pc \in {"copy_failed", "create_failed", "write_failed"}

\* C18: save copies the schedule file to the backup before it opens the file
\* for writing: whenever the file was opened the backup holds the text the
\* file had, and when the copy fails the file is neither created, truncated
\* nor written and keeps its text.
C18_BackupFirst ==
    [][ExitYes =>
        /\ pc' = "copy_failed" => scd_file' = scd_file /\ bak_file' = bak_file
        /\ pc' \in {"create_failed", "write_failed", "saved"} =>
              bak_file' = Some(scd_file)]_vars

\* C18 witness: the copy failed on a save that would have rewritten the file
\* of two entries with three; the file has its two lines, there is no backup.
C18_Witness ==
    /\ pc = "copy_failed"
    /\ Len(app.schedule_list.lines) = 3
    /\ scd_file = Files[2]
    /\ bak_file = None

\* C19: a save that fails at any step leaves the complete text the schedule
\* file had before the save.
C19_NoPartialFile ==
    [][ExitYes /\ pc' \in {"copy_failed", "create_failed", "write_failed"} =>
        scd_file' = scd_file]_vars

\* The text of a saved list: the line of each entry and a newline, the last
\* entry of the list first.
RECURSIVE SavedText(_)
SavedText(entries) ==
    IF entries = <<>> THEN <<>>
    ELSE SavedText(Tail(entries)) \o format(Head(entries)) \o <<"\n">>

\* The newlines of a text.
Newlines(text) == Cardinality({ i \in 1..Len(text) : text[i] = "\n" })

\* C20: after a successful save the schedule file holds one encoded line per
\* entry of the live list and nothing else, each ended by a newline, in the
\* reverse of the order of the list.
C20_SavedFile ==
    pc = "saved" =>
        /\ scd_file = SavedText(app.schedule_list.lines)
        /\ Newlines(scd_file) = Len(app.schedule_list.lines)
        /\ scd_file # <<>> => scd_file[Len(scd_file)] = "\n"

\* C20 witness: a list of three entries, one of them added, was saved.
C20_Witness ==
    /\ pc = "saved"
    /\ Len(app.schedule_list.lines) = 3 /\ Len(app.additions) = 1
    /\ Newlines(scd_file) = 3
    /\ bak_file = Some(Files[2])

(***************************************************************************)
(* Properties of load, of the order of the list and of the form            *)
(***************************************************************************)

\* The lines of the schedule file on disk, whether they are text or not.
FileLines == LinesFrom(scd_file)

\* The line is text and decodes to an entry.
Decodes(line) == is_utf8(line) /\ ScheduleLine_try_from(line).ok

\* C21: load decodes every line of the file and returns the entries in the
\* reverse of the order of the lines; when any line fails to decode the load
\* fails and no entry of the file is used.
C21_LoadAll ==
    [][Launch =>
        IF \A i \in 1..Len(FileLines) : Decodes(FileLines[i])
        THEN /\ pc' = "running"
             /\ app'.schedule_list.lines =
                   [i \in 1..Len(FileLines) |->
                      ScheduleLine_try_from(FileLines[Len(FileLines) + 1 - i]).val]
        ELSE /\ pc' = "load_failed"
             /\ app'.schedule_list.lines = <<>>]_vars

\* C22: after load and after any adds and removals the live list is in
\* descending order: no entry is less than the entry that follows it.
C22_ListDescending ==
    pc = "running" => Descending(app.schedule_list.lines)

\* The digits of a buffer that Rust's integer parse reads: a plus sign
\* before them is allowed.
NumText(buf) == IF buf # <<>> /\ buf[1] = "+" THEN Tail(buf) ELSE buf

\* The buffer holds a number of lo..hi.
InRangeBuf(buf, lo, hi) ==
    /\ NumText(buf) # <<>> /\ AllDigits(NumText(buf))
    /\ DigitsVal(NumText(buf)) >= lo /\ DigitsVal(NumText(buf)) <= hi

\* The duration buffer holds "-" or a number of minutes of at least 1.
ValidDurationBuf(buf) ==
    \/ buf = <<"-">>
    \/ NumText(buf) # <<>> /\ AllDigits(NumText(buf)) /\ DigitsVal(NumText(buf)) >= 1

\* The first rule of the form that the buffers break, in the order year,
\* month, day, hour, minute, date and time together, duration, priority;
\* "None" when they break none.
BrokenRule(a) ==
    IF ~InRangeBuf(a.year_input, 2000, 2050) THEN "Year"
    ELSE IF ~InRangeBuf(a.month_input, 1, 12) THEN "Month"
    ELSE IF ~InRangeBuf(a.day_input, 1, 31) THEN "Day"
    ELSE IF ~InRangeBuf(a.hour_input, 0, 23) THEN "Hour"
    ELSE IF ~InRangeBuf(a.minute_input, 0, 59) THEN "Minute"
    ELSE IF DigitsVal(NumText(a.day_input)) >
               DaysInMonth(DigitsVal(NumText(a.year_input)),
                           DigitsVal(NumText(a.month_input))) THEN "Combination"
    ELSE IF ~ValidDurationBuf(a.duration_input) THEN "Duration"
    ELSE IF ~InRangeBuf(a.priority_input, 0, 20) THEN "Priority"
    ELSE "None"

\* The error kind of each rule.
KindOfRule ==
    [Year |-> "InvalidDate", Month |-> "InvalidDate", Day |-> "InvalidDate",
     Hour |-> "InvalidTime", Minute |-> "InvalidTime",
     Combination |-> "InvalidDate", Duration |-> "InvalidDuration",
     Priority |-> "InvalidPriority"]

\* How the message of each range rule begins.
MessageOfRule ==
    [Year |-> S_BadYear, Month |-> S_BadMonth, Day |-> S_BadDay,
     Hour |-> S_BadHour, Minute |-> S_BadMinute,
     Combination |-> <<>>, Duration |-> <<>>, Priority |-> <<>>]

\* text begins with prefix.
StartsWith(text, prefix) ==
    Len(text) >= Len(prefix) /\ SubSeq(text, 1, Len(prefix)) = prefix

\* C23: a submit whose buffers break one rule or several fails with the
\* error of the first rule broken in the order year, month, day, hour,
\* minute, date and time together, duration, priority, and that error is
\* the one recorded.
C23_FailFast ==
    [][Submit /\ BrokenRule(app) # "None" =>
        /\ ~create_line_from_inputs(app).ok
        /\ app'.last_err = Some(create_line_from_inputs(app))
        /\ app'.last_err[1].kind = KindOfRule[BrokenRule(app)]
        /\ StartsWith(app'.last_err[1].msg, MessageOfRule[BrokenRule(app)])]_vars

\* The names the task picker offers.
TaskNames(a) == { a.experiment_list.items[j] : j \in 1..Len(a.experiment_list.items) }

\* C24: the entry a successful submit adds names a task of the list of task
\* names supplied, wherever the cursor of the task picker is, also when
\* nothing is selected.
C24_TaskMember ==
    [][Submit /\ create_line_from_inputs(app).ok =>
        /\ app'.additions # <<>>
        /\ app'.additions[Len(app'.additions)].experiment \in TaskNames(app)]_vars

\* The entries of a sequence.
Range(seq) == { seq[i] : i \in 1..Len(seq) }

\* Ledgers a session with the entries of the state could hold.
Ledgers(a) ==
    { <<>>, a.additions, a.deletions, a.additions \o a.deletions,
      a.schedule_list.lines }

\* The app with other ledgers.
WithLedgers(a, adds, dels) == [a EXCEPT !.additions = adds, !.deletions = dels]

\* C25: the ledgers do not influence what is saved: the file a successful
\* save writes is the one it writes for the same live list with any other
\* ledgers, and an entry that is in a ledger and not in the live list has no
\* line in the file.
C25_LedgersNotPersisted ==
    [][ExitYes /\ pc' = "saved" =>
        /\ \A adds \in Ledgers(app) : \A dels \in Ledgers(app) :
              target_after(WithLedgers(app, adds, dels), "none",
                           Len(app.schedule_list.lines)) = scd_file'
        /\ \A e \in Range(app.additions) \cup Range(app.deletions) :
              e \notin Range(app.schedule_list.lines) =>
                  format(e) \notin Range(BufRead_lines(scd_file'))]_vars

\* C25 witness: the file of two entries was saved after an entry was added
\* and removed again: the entry is in both ledgers and the file has the two
\* lines it had.
C25_Witness ==
    /\ pc = "saved"
    /\ Len(app.additions) = 1 /\ app.deletions = app.additions
    /\ Len(app.schedule_list.lines) = 2
    /\ app.additions[1] \notin Range(app.schedule_list.lines)
    /\ scd_file = Files[2]

\* C28: a submit that fails on the year, month, day, hour or minute buffer
\* puts the cursor on the field of that buffer, whatever text it holds.
C28_RefocusField ==
    [][Submit /\ BrokenRule(app) \in {"Year", "Month", "Day", "Hour", "Minute"} =>
        app'.currently_editing = Some(BrokenRule(app))]_vars

\* The entry without its kwargs.
NoKwargs(e) == [e EXCEPT !.kwargs = <<>>]

\* C29: a successful submit with an empty kwargs buffer adds an entry with
\* no kwargs at all, the entry that the same line written without a kwarg
\* decodes to.
C29_EmptyKwargs ==
    [][Submit /\ create_line_from_inputs(app).ok /\ app.kwarg_input = <<>> =>
        /\ app'.additions # <<>>
        /\ app'.additions[Len(app'.additions)].kwargs = <<>>
        /\ ScheduleLine_try_from(format(NoKwargs(app'.additions[Len(app'.additions)]))).ok =>
              ScheduleLine_try_from(format(NoKwargs(app'.additions[Len(app'.additions)])))
                 = Ok(app'.additions[Len(app'.additions)])]_vars

\* C30: while the screen is Main or Removing no field is current; a field
\* is current only while an add is in progress, whatever keys were pressed.
C30_NotEditing ==
    pc = "running" /\ app.current_screen \in {"Main", "Removing"} =>
        app.currently_editing = None

(***************************************************************************)
(* Properties of the keys                                                  *)
(***************************************************************************)

\* The place of each text field's buffer in Buffers.
BufferIndex ==
    [Year |-> 1, Month |-> 2, Day |-> 3, Hour |-> 4, Minute |-> 5,
     Duration |-> 6, Priority |-> 7, Kwargs |-> 8]

\* The cursors of the three lists.
Cursors(a) ==
    <<a.schedule_list.state, a.experiment_list.state, a.mode_list.state>>

\* The step is a character typed or a backspace.
Typing == AddingChar \/ AddingBackspace

\* The buffer has one character more at its end, or its last one less.
Edited(old, new) ==
    \/ Len(new) = Len(old) + 1 /\ SubSeq(new, 1, Len(old)) = old
    \/ Len(old) > 0 /\ new = SubSeq(old, 1, Len(old) - 1)
    \/ new = old

\* C31: a character typed and a backspace change only the buffer of the
\* current field; every other buffer, the cursors of the lists, the live
\* list and the ledgers stay, and with the cursor on Task, Mode or Done, or
\* on no field, no buffer changes.
C31_TypingFrame ==
    [][Typing =>
        /\ \A i \in 1..8 :
              \/ Buffers(app')[i] = Buffers(app)[i]
              \/ /\ app.currently_editing # None
                 /\ app.currently_editing[1] \in DOMAIN BufferIndex
                 /\ i = BufferIndex[app.currently_editing[1]]
                 /\ Edited(Buffers(app)[i], Buffers(app')[i])
        /\ Cursors(app') = Cursors(app)
        /\ app'.schedule_list.lines = app.schedule_list.lines
        /\ app'.additions = app.additions
        /\ app'.deletions = app.deletions
        /\ app'.currently_editing = app.currently_editing
        /\ app'.current_screen = app.current_screen]_vars

\* C31 witness: "1" was typed into the month field of the empty form.
C31_Witness ==
    /\ pc = "running" /\ edits_left = 0
    /\ app.currently_editing = Some("Month")
    /\ Buffers(app) = <<<<>>, <<"1">>, <<>>, <<>>, <<>>, <<>>, <<>>, <<>>>>

\* C32: an entry is added only by Enter with the cursor on Done: no other
\* key of the session makes the live list or the additions ledger longer,
\* and Enter on any other field moves the cursor to the next field of the
\* cycle and leaves the live list, the additions ledger and the last error
\* as they are.
C32_SubmitOnlyOnDone ==
    [][pc = "running" =>
        /\ \/ Len(app'.schedule_list.lines) > Len(app.schedule_list.lines)
           \/ Len(app'.additions) > Len(app.additions)
           => Submit
        /\ AddingEnter /\ app.currently_editing # None
                       /\ app.currently_editing # Some("Done") =>
              /\ app'.currently_editing = Some(After(app.currently_editing[1]))
              /\ app'.schedule_list.lines = app.schedule_list.lines
              /\ app'.additions = app.additions
              /\ app'.last_err = app.last_err
              /\ Buffers(app') = Buffers(app)
              /\ app'.current_screen = "Adding"]_vars

\* C32 witness: Enter on Priority of a form that would be accepted moved the
\* cursor to Experiment and added nothing.
C32_Witness ==
    /\ pc = "running" /\ app.current_screen = "Adding"
    /\ app.currently_editing = Some("Experiment")
    /\ create_line_from_inputs(app).ok
    /\ app.schedule_list.lines = <<>> /\ app.additions = <<>>

\* seq without its entry at the zero-based index i.
Without(seq, i) ==
    [j \in 1..(Len(seq) - 1) |-> IF j <= i THEN seq[j] ELSE seq[j + 1]]

\* C33: remove-selected with the cursor at index i removes the entry at i
\* and no other, appends it to the deletions ledger, keeps the order of the
\* other entries and clears the cursor; with no selection the live list and
\* the ledgers are unchanged.
C33_RemoveSelected ==
    [][RemovingEnter =>
        /\ IF app.schedule_list.state.selected # None
           THEN /\ app.schedule_list.state.selected[1] < Len(app.schedule_list.lines)
                /\ app'.schedule_list.lines =
                      Without(app.schedule_list.lines,
                              app.schedule_list.state.selected[1])
                /\ app'.deletions =
                      Append(app.deletions,
                             app.schedule_list.lines[
                                 app.schedule_list.state.selected[1] + 1])
           ELSE /\ app'.schedule_list.lines = app.schedule_list.lines
                /\ app'.deletions = app.deletions
        /\ app'.schedule_list.state.selected = None
        /\ app'.additions = app.additions]_vars

\* C33 witness: of the two loaded entries the second of the list, the one
\* of the year 2000, was removed: it is in the deletions ledger, the entry
\* of 2024 is left, the cursor is cleared.
C33_Witness ==
    /\ pc = "running" /\ app.current_screen = "Main"
    /\ Len(app.schedule_list.lines) = 1
    /\ app.schedule_list.lines[1].timestamp.y = 2024
    /\ Len(app.deletions) = 1 /\ app.deletions[1].timestamp.y = 2000
    /\ app.additions = <<>>
    /\ app.schedule_list.state.selected = None

\* C34: clearing the selection of the entry list or of the task list sets
\* the cursor to None and leaves the scroll offset of the list as it was.
C34_UnselectKeepsOffset ==
    h_in.op = "nav" /\ h_pc = "cleared" =>
        /\ h_out.state.selected = None
        /\ h_out.state.offset = h_in.state.offset

\* C34 witness: the selection of a list of three items scrolled by one row,
\* its cursor on the last item, was cleared.
C34_Witness ==
    /\ h_in.op = "nav" /\ h_pc = "cleared"
    /\ h_in.n = 3 /\ h_in.state = ListState(Some(2), 1)
    /\ h_out.state = ListState(None, 1)

\* The step is a navigation key of the Removing screen.
RemovingNav ==
    \/ RemovingNext \/ RemovingPrevious \/ RemovingFirst \/ RemovingLast
    \/ RemovingPageDown \/ RemovingPageUp

\* The step is a navigation key of the Selecting screen.
SelectingNav ==
    SelectingNext \/ SelectingPrevious \/ SelectingFirst \/ SelectingLast

\* C35: a navigation key moves the cursor of one list only: of the entry
\* list on the Removing screen, of the task list on the Selecting screen with
\* the field Task, of the mode list with the field Mode; the two other
\* cursors, the buffers and the live list are unchanged.
C35_OneCursor ==
    [][RemovingNav \/ SelectingNav =>
        /\ RemovingNav =>
              /\ app'.experiment_list.state = app.experiment_list.state
              /\ app'.mode_list.state = app.mode_list.state
        /\ SelectingNav /\ app.currently_editing = Some("Experiment") =>
              /\ app'.schedule_list.state = app.schedule_list.state
              /\ app'.mode_list.state = app.mode_list.state
        /\ SelectingNav /\ app.currently_editing = Some("SchedulingMode") =>
              /\ app'.schedule_list.state = app.schedule_list.state
              /\ app'.experiment_list.state = app.experiment_list.state
        /\ SelectingNav => app.currently_editing \in
                              {Some("Experiment"), Some("SchedulingMode")}
        /\ Buffers(app') = Buffers(app)
        /\ app'.schedule_list.lines = app.schedule_list.lines
        /\ app'.experiment_list.items = app.experiment_list.items]_vars

\* C35 witness: on the Selecting screen the cursor of the task list was
\* moved to its second item; the mode list has the cursor it started with
\* and the entry list has none.
C35_Witness ==
    /\ pc = "running" /\ app.current_screen = "Selecting"
    /\ app.currently_editing = Some("Experiment")
    /\ app.experiment_list.state.selected = Some(1)
    /\ app.mode_list.state.selected = Some(0)
    /\ app.schedule_list.state.selected = None
    /\ Len(app.schedule_list.lines) = 2

\* The cursor is None or the index of one of n items.
ValidCursor(state, n) ==
    state.selected = None \/ (state.selected[1] >= 0 /\ state.selected[1] < n)

\* C36: in every state of the session the cursor of the entry list, of the
\* task list and of the mode list is None or an index below the length of
\* its list, so remove-selected never indexes outside the live list.
C36_CursorsValid ==
    pc = "running" =>
        /\ ValidCursor(app.schedule_list.state, Len(app.schedule_list.lines))
        /\ ValidCursor(app.experiment_list.state, Len(app.experiment_list.items))
        /\ ValidCursor(app.mode_list.state, Len(app.mode_list.modes))

\* C36 witness: on the Removing screen the cursor is on the last of three
\* entries, one of them added in the session, and the task list has its
\* cursor on its last item.
C36_Witness ==
    /\ pc = "running" /\ app.current_screen = "Removing"
    /\ Len(app.schedule_list.lines) = 3 /\ Len(app.additions) = 1
    /\ app.schedule_list.state.selected = Some(2)
    /\ app.experiment_list.state.selected = Some(1)

\* Every entry is as often in the live list and the deletions together as
\* in the entries loaded and the additions together.
Conserved(a, loaded) ==
    \A e \in Range(a.schedule_list.lines) \cup Range(a.deletions)
             \cup Range(a.additions) \cup Range(loaded) :
        Count(e, a.schedule_list.lines) + Count(e, a.deletions)
            = Count(e, loaded) + Count(e, a.additions)

\* What load_schedule returns for each schedule file of the model.
LoadedFiles == [i \in 1..Len(Files) |-> load_schedule(Files[i])]

\* What load_schedule returned at startup, the file on disk being text.
Loaded(text) == LoadedFiles[CHOOSE i \in 1..Len(Files) : Files[i] = text]

\* The ledger new holds every entry of the ledger old, each at least as often.
Keeps(old, new) == \A e \in Range(old) : Count(e, new) >= Count(e, old)

\* C37: in every state of the session the live list, as a multiset, is the
\* entries loaded at startup plus the additions ledger minus the deletions
\* ledger, and no step takes an entry out of a ledger.
C37_LedgerConservation ==
    [][pc' = "running" =>
        /\ Loaded(scd_file').ok
        /\ Conserved(app', Loaded(scd_file').val)
        /\ pc = "running" =>
              /\ Keeps(app.additions, app'.additions)
              /\ Keeps(app.deletions, app'.deletions)]_vars

\* C37 witness: over the file of two entries an entry was added and then
\* removed, and a loaded entry was removed: one entry is left, the added
\* entry is in both ledgers.
C37_Witness ==
    /\ pc = "running" /\ scd_file = Files[2]
    /\ Len(app.schedule_list.lines) = 1
    /\ Len(app.additions) = 1 /\ Len(app.deletions) = 2
    /\ app.additions[1] \in Range(app.deletions)

\* C38: the file a successful save writes loads again without an error
\* and gives the live list that was saved, the same entries in the same
\* order.
C38_SaveLoadRoundTrip ==
    pc = "saved" => load_schedule(scd_file) = Ok(app.schedule_list.lines)

\* C39: the schedule file and its backup change only on 'y' of the Exiting
\* screen, when the loop of run_app has ended; 'n' changes neither, and the
\* program takes no step after the save, so it saves at most once.
C39_SaveOnlyOnConfirm ==
    [][/\ pc \in {"start", "running"}
       /\ scd_file' # scd_file \/ bak_file' # bak_file =>
             ExitYes /\ app.current_screen = "Exiting"
       /\ ExitNo => scd_file' = scd_file /\ bak_file' = bak_file
       /\ ExitYes \/ ExitNo => pc' \notin {"start", "running"}]_vars

\* C39 witness: the session over the empty file ended with 'n' after an
\* entry was added: the file is empty and there is no backup.
C39_Witness ==
    /\ pc = "discarded"
    /\ Len(app.additions) = 1 /\ Len(app.schedule_list.lines) = 1
    /\ scd_file = <<>> /\ bak_file = None

\* The two fields whose value is picked from a list.
ListFields == {Some("Experiment"), Some("SchedulingMode")}

\* C40: whenever the screen is Selecting the current field is Experiment (the
\* task) or SchedulingMode; the screen is entered only from Adding with one
\* of the two fields current, and no key of the Selecting screen that stays
\* on it changes the current field.
C40_SelectingField ==
    /\ [](app.current_screen = "Selecting" =>
             app.currently_editing \in ListFields)
    /\ [][app.current_screen # "Selecting" /\ app'.current_screen = "Selecting"
             => /\ app.current_screen = "Adding"
                /\ app.currently_editing \in ListFields
                /\ app'.currently_editing = app.currently_editing]_vars
    /\ [][app.current_screen = "Selecting" /\ app'.current_screen = "Selecting"
             => app'.currently_editing = app.currently_editing]_vars

\* C40 witness: the Selecting screen is open on the mode list and its
\* cursor has moved off the first mode.
C40_Witness ==
    /\ pc = "running" /\ app.current_screen = "Selecting"
    /\ app.currently_editing = Some("SchedulingMode")
    /\ app.mode_list.state.selected # None
    /\ app.mode_list.state.selected # Some(0)

(***************************************************************************)
(* Further properties of the codec                                         *)
(***************************************************************************)

\* C26: decode refuses a line whose task token is the empty string, so no
\* entry decoded has an empty task.
C26_EmptyTask ==
    DecodeDone /\ Len(h_in.toks) >= 6 =>
        /\ h_in.toks[5] = <<>> => ~h_out.res.ok
        /\ h_out.res.ok => h_out.res.val.experiment # <<>>

\* C27: decode validates the duration before the priority: a line whose
\* date and time are valid, whose duration token is neither "-" nor a
\* positive integer and whose priority token is not of 0..20 fails with
\* InvalidDuration.
C27_DurationBeforePriority ==
    /\ DecodeDone /\ Len(h_in.toks) >= 6
    /\ InRangeToks(h_in.toks)
    /\ h_in.toks[3] \notin MinuteTokens \cup {<<"-">>}
    /\ h_in.toks[4] \notin PrioTokens
    => IsErr(h_out.res, "InvalidDuration")

====
